---- MODULE Spec2Model ----
(***************************************************************************)
(* Model of the general hook framework of massgen/mcp_tools/hooks.py:      *)
(* HookResult, PatternHook matching, PythonCallableHook.execute, and the   *)
(* GeneralHookManager registry and execute_hooks pipeline.                 *)
(*                                                                         *)
(* Python values whose type varies (Optional[...] fields, dicts, values a  *)
(* hook function may return) are tagged records [type |-> ..., val |-> ..].*)
(* Tool names and matchers are sequences of one-character strings, so that *)
(* split/strip/fnmatch are computed and not assumed.                       *)
(***************************************************************************)
EXTENDS Integers, Sequences, FiniteSets, TLC

\* ------------------------------------------------------------------------
\* Bounds of the model
\* ------------------------------------------------------------------------
\* registrations explored by the registry-only specification
MaxRegs == 3
\* registrations explored before invocations in the pipeline specification
MaxPipeRegs == 2

\* ------------------------------------------------------------------------
\* Python values
\* ------------------------------------------------------------------------
None == [type |-> "NoneType"]
Str(s) == [type |-> "str", val |-> s]
PyInt(n) == [type |-> "int", val |-> n]
Dict(f) == [type |-> "dict", val |-> f]
\* an object json cannot serialize (e.g. a set or a file handle)
Obj == [type |-> "object"]
EmptyMap == [k \in {} |-> None]

\* bool(v) for the value types of the model
Truthy(v) ==
    CASE v.type = "NoneType" -> FALSE
      [] v.type = "str" -> v.val # ""
      [] v.type = "int" -> v.val # 0
      [] v.type = "dict" -> DOMAIN v.val # {}
      [] OTHER -> TRUE

\* d.get(k, default) on a dict value
DictGet(d, k, default) == IF k \in DOMAIN d.val THEN d.val[k] ELSE default

\* json.dumps raises TypeError on a value that has no JSON form
Serializable(v) ==
    CASE v.type = "dict" -> \A k \in DOMAIN v.val : v.val[k].type \in {"int", "str", "NoneType"}
      [] v.type \in {"int", "str", "NoneType"} -> TRUE
      [] OTHER -> FALSE

\* json.dumps of a scalar
json_dumps_scalar(v) ==
    CASE v.type = "int" -> ToString(v.val)
      [] v.type = "str" -> "\"" \o v.val \o "\""
      [] OTHER -> "null"

\* json.dumps(v) with the default separators (", " and ": "); the dicts of the
\* model have at most one key, so key order does not arise
json_dumps(v) ==
    IF v.type = "dict"
    THEN IF DOMAIN v.val = {} THEN Str("{}")
         ELSE LET k == CHOOSE k \in DOMAIN v.val : TRUE
              IN Str("{\"" \o k \o "\": " \o json_dumps_scalar(v.val[k]) \o "}")
    ELSE Str(json_dumps_scalar(v))

\* ------------------------------------------------------------------------
\* HookType
\* ------------------------------------------------------------------------
PRE_TOOL_USE == "PreToolUse"
POST_TOOL_USE == "PostToolUse"
HookType == {PRE_TOOL_USE, POST_TOOL_USE}

\* ------------------------------------------------------------------------
\* HookResult
\* ------------------------------------------------------------------------
\* a sync that only follows the legacy field
post_init_one_way(r) == IF ~r.allowed THEN [r EXCEPT !.decision = "deny"] ELSE r

\* __post_init__: sync the legacy field allowed with decision
post_init(r) ==
    IF ~r.allowed THEN [r EXCEPT !.decision = "deny"]
    ELSE IF r.decision = "deny" THEN [r EXCEPT !.allowed = FALSE]
    ELSE r

\* the dataclass constructor: fields in declaration order, then __post_init__
HookResult(allowed, metadata, modified_args, decision, reason, updated_input, inject) ==
    post_init([allowed |-> allowed, metadata |-> metadata, modified_args |-> modified_args,
               decision |-> decision, reason |-> reason, updated_input |-> updated_input,
               inject |-> inject])

\* data.get(k, default) on a plain mapping (the keys present are DOMAIN data)
Get(data, k, default) == IF k \in DOMAIN data THEN data[k] ELSE default

\* a decoder that reads the injection from the key "injection"
from_dict_injection_key(data) ==
    HookResult(Get(data, "allowed", TRUE), Get(data, "metadata", Dict(EmptyMap)),
               Get(data, "modified_args", None), Get(data, "decision", "allow"),
               Get(data, "reason", None), Get(data, "updated_input", None),
               Get(data, "injection", None))

from_dict(data) ==
    HookResult(Get(data, "allowed", TRUE), Get(data, "metadata", Dict(EmptyMap)),
               Get(data, "modified_args", None), Get(data, "decision", "allow"),
               Get(data, "reason", None), Get(data, "updated_input", None),
               Get(data, "inject", None))

HookResult_allow == HookResult(TRUE, Dict(EmptyMap), None, "allow", None, None, None)
HookResult_deny(reason) == HookResult(FALSE, Dict(EmptyMap), None, "deny", reason, None, None)
HookResult_ask(reason) == HookResult(TRUE, Dict(EmptyMap), None, "ask", reason, None, None)

\* ------------------------------------------------------------------------
\* PatternHook: matcher parsing and matching
\* ------------------------------------------------------------------------
Star == <<"*">>
IsSpace(c) == c \in {" ", "\t", "\n"}

\* s.split(sep) for a one-character separator
RECURSIVE split(_, _)
split(s, sep) ==
    IF \A i \in 1..Len(s) : s[i] # sep THEN <<s>>
    ELSE LET i == CHOOSE j \in 1..Len(s) : s[j] = sep /\ \A k \in 1..(j - 1) : s[k] # sep
         IN <<SubSeq(s, 1, i - 1)>> \o split(SubSeq(s, i + 1, Len(s)), sep)

\* s.strip()
RECURSIVE strip(_)
strip(s) ==
    IF s = <<>> THEN s
    ELSE IF IsSpace(s[1]) THEN strip(Tail(s))
    ELSE IF IsSpace(s[Len(s)]) THEN strip(SubSeq(s, 1, Len(s) - 1))
    ELSE s

\* a parse that keeps the blanks around the sub-patterns
_parse_matcher_unstripped(matcher) ==
    IF matcher = <<>> THEN <<Star>>
    ELSE SelectSeq(split(matcher, "|"), LAMBDA p : strip(p) # <<>>)

_parse_matcher(matcher) ==
    IF matcher = <<>> THEN <<Star>>
    ELSE LET parts == split(matcher, "|")
             stripped == [i \in 1..Len(parts) |-> strip(parts[i])]
         IN SelectSeq(stripped, LAMBDA p : p # <<>>)

\* fnmatch.fnmatch(name, pat) for patterns made of literals, "*" and "?"
\* (the character classes "[...]" are not used by the matchers of the model)
RECURSIVE fnmatch(_, _)
fnmatch(name, pat) ==
    IF pat = <<>> THEN name = <<>>
    ELSE IF pat[1] = "*"
         THEN fnmatch(name, Tail(pat)) \/ (name # <<>> /\ fnmatch(Tail(name), pat))
    ELSE IF name = <<>> THEN FALSE
    ELSE (pat[1] = "?" \/ pat[1] = name[1]) /\ fnmatch(Tail(name), Tail(pat))

\* PatternHook.matches
matches(hook, tool_name) ==
    \E i \in 1..Len(hook._patterns) : fnmatch(tool_name, hook._patterns[i])

\* ------------------------------------------------------------------------
\* PythonCallableHook
\* ------------------------------------------------------------------------
\* a function object passed as handler, and one defined with `async def`
Fn == [type |-> "function"]
CoFn == [type |-> "function", coroutine |-> TRUE]
\* asyncio.iscoroutinefunction
iscoroutinefunction(f) == "coroutine" \in DOMAIN f

\* PatternHook.__init__ followed by PythonCallableHook.__init__
PythonCallableHook_init(name, handler, matcher, timeout) ==
    [name |-> name, matcher |-> matcher, timeout |-> timeout,
     _patterns |-> _parse_matcher(matcher),
     _handler_path |-> IF handler.type = "str" THEN handler ELSE None,
     _callable |-> IF handler.type = "function" THEN handler ELSE None]

\* What one execute call meets: the import of the handler path fails, or the
\* wrapped function returns a value, raises, or is still running at the timeout
ImportFails == [kind |-> "import_error"]
\* the import succeeds and getattr gives an object that is not callable
ImportsNonCallable == [kind |-> "import_noncallable"]
RetVal(v) == [kind |-> "return", value |-> v]
Raises == [kind |-> "raise"]
TimesOut == [kind |-> "timeout"]
\* a HookResult instance as a Python value
HR(r) == [type |-> "HookResult", val |-> r]

_normalize_result(result) ==
    CASE result.type = "HookResult" -> result.val
      [] result.type = "dict" -> from_dict(result.val)
      [] result.type = "NoneType" -> HookResult_allow
      [] OTHER -> HookResult_allow

\* str(e) of the error _import_callable raises for the model's handler path
ImportErrorText == "No module named 'missing'"

\* the lazy load is attempted: the tool matches, no callable yet, a path is set
NeedsImport(hook, function_name) ==
    matches(hook, function_name) /\ hook._callable = None /\ Truthy(hook._handler_path)

\* a timeout branch that denies
OnTimeout_deny(hook) == HookResult_deny(Str("Hook " \o hook.name \o " timed out"))

\* the except branches of execute
OnTimeout(hook) == HookResult_allow
OnError(hook) == HookResult_allow

\* the HookEvent execute builds from the context it is given and hands to the
\* function (the fields the properties look at)
HookEvent(ctx, function_name) ==
    [hook_type |-> Get(ctx, "hook_type", Str("PreToolUse")),
     agent_id |-> Get(ctx, "agent_id", None),
     tool_name |-> function_name,
     tool_output |-> Get(ctx, "tool_output", None)]

\* the event of a call: none is built when the lazy import fails
EventSeen(hook, function_name, ctx, outcome) ==
    IF NeedsImport(hook, function_name) /\ outcome.kind = "import_error" THEN None
    ELSE HookEvent(ctx, function_name)

\* PythonCallableHook.execute: the HookResult it returns when the call meets
\* `outcome` (import_error is met only when the lazy load is attempted)
PythonCallableHook_execute(hook, function_name, arguments, ctx, outcome) ==
    IF ~matches(hook, function_name) THEN HookResult_allow
    ELSE IF NeedsImport(hook, function_name) /\ outcome.kind = "import_error"
    THEN HookResult_deny(Str("Hook import failed: " \o ImportErrorText))
    ELSE IF hook._callable = None /\ ~Truthy(hook._handler_path) THEN HookResult_allow
    ELSE IF hook._callable = Obj \/ outcome.kind = "import_noncallable" THEN OnError(hook)
    ELSE CASE outcome.kind = "return" -> _normalize_result(outcome.value)
           [] outcome.kind = "timeout" -> OnTimeout(hook)
           [] OTHER -> OnError(hook)

\* the hook object after the call: a successful lazy load stores the callable
AfterExecute(hook, function_name, outcome) ==
    IF NeedsImport(hook, function_name) /\ outcome.kind # "import_error"
    THEN [hook EXCEPT !._callable = IF outcome.kind = "import_noncallable" THEN Obj ELSE Fn]
    ELSE hook

\* The function call made by execute, once execute has returned: "none" was
\* made, it has "finished" (returned or raised), it was "cancelled" (wait_for
\* cancels the coroutine it awaits at the timeout), or it is still "running"
\* (the executor thread of a sync function cannot be cancelled)
WorkAfter(hook, function_name, outcome) ==
    LET callable == AfterExecute(hook, function_name, outcome)._callable
    IN IF ~matches(hook, function_name) THEN "none"
       ELSE IF callable.type # "function" THEN "none"
       ELSE CASE outcome.kind = "timeout" ->
                     IF iscoroutinefunction(callable) THEN "cancelled" ELSE "running"
              [] OTHER -> "finished"

\* ------------------------------------------------------------------------
\* ExternalCommandHook
\* ------------------------------------------------------------------------
\* PatternHook.__init__ followed by ExternalCommandHook.__init__
ExternalCommandHook_init(name, handler, matcher, timeout) ==
    [name |-> name, matcher |-> matcher, timeout |-> timeout,
     _patterns |-> _parse_matcher(matcher), handler_path |-> handler]

\* what the process wrote to stdout: bytes that are UTF-8 text, or are not
Bytes(text) == [utf8 |-> TRUE, text |-> text]
BadBytes == [utf8 |-> FALSE, text |-> ""]
\* What one execute call meets: the process cannot be started, it exits with a
\* return code having written stdout, or it is still running at the timeout
SpawnFails == [kind |-> "spawn_error"]
Exits(returncode, stdout) == [kind |-> "exit", returncode |-> returncode, stdout |-> stdout]

\* a JSON array as a Python value
PyList == [type |-> "list"]
\* json.loads on the documents of the model: the text and the value it parses to
JsonDocs ==
    { <<"{}", Dict(EmptyMap)>>,
      <<"{\"decision\": \"deny\"}", Dict([decision |-> "deny"])>>,
      <<"{\"decision\": \"deny\", \"reason\": \"no\"}",
        Dict([decision |-> "deny", reason |-> Str("no")])>>,
      <<"{\"allowed\": false}", Dict([allowed |-> FALSE])>>,
      <<"{\"decision\": \"ask\", \"reason\": \"sure?\"}",
        Dict([decision |-> "ask", reason |-> Str("sure?")])>>,
      <<"[1]", PyList>>,
      <<"null", None>>,
      <<"\"deny\"", Str("deny")>>,
      <<"7", PyInt(7)>> }
\* json.loads(text): the parsed value, or JSONDecodeError for any other text
json_loads(text) ==
    IF \E d \in JsonDocs : d[1] = text
    THEN [ok |-> TRUE, value |-> (CHOOSE d \in JsonDocs : d[1] = text)[2]]
    ELSE [ok |-> FALSE, value |-> None]

\* the except branches of execute
OnCommandTimeout(hook) == HookResult_allow
OnCommandError(hook) == HookResult_allow

\* a parse that denies what it cannot read
ParseStdout_strict(hook, stdout) ==
    IF ~stdout.utf8 THEN HookResult_deny(None)
    ELSE LET r == json_loads(stdout.text)
         IN IF ~r.ok THEN HookResult_deny(None)
            ELSE IF r.value.type # "dict" THEN HookResult_deny(None)
            ELSE from_dict(r.value.val)

\* "Parse JSON output": stdout.decode() raises UnicodeDecodeError on bytes that
\* are not text and from_dict raises AttributeError on a value that is not a
\* dict (both reach `except Exception`); json.loads raises JSONDecodeError
ParseStdout(hook, stdout) ==
    IF ~stdout.utf8 THEN OnCommandError(hook)
    ELSE LET r == json_loads(stdout.text)
         IN IF ~r.ok THEN HookResult_allow
            ELSE IF r.value.type # "dict" THEN OnCommandError(hook)
            ELSE from_dict(r.value.val)

\* an exit code that does not hide the output
OnNonZeroExit_parse(hook, stdout) == ParseStdout(hook, stdout)

\* `if proc.returncode != 0`
OnNonZeroExit(hook, stdout) == HookResult_allow

\* ExternalCommandHook.execute: the HookResult it returns when the call meets
\* `outcome`
ExternalCommandHook_execute(hook, function_name, arguments, ctx, outcome) ==
    IF ~matches(hook, function_name) THEN HookResult_allow
    ELSE CASE outcome.kind = "spawn_error" -> OnCommandError(hook)
           [] outcome.kind = "timeout" -> OnCommandTimeout(hook)
           [] OTHER -> IF outcome.returncode # 0 THEN OnNonZeroExit(hook, outcome.stdout)
                       ELSE ParseStdout(hook, outcome.stdout)

\* The process of the call once execute has returned: "none" was spawned, it
\* has "exited" (communicate returned), or it is still "running": the timeout
\* branch returns without terminating it
ProcessAfter(hook, function_name, outcome) ==
    IF ~matches(hook, function_name) THEN "none"
    ELSE CASE outcome.kind = "spawn_error" -> "none"
           [] outcome.kind = "timeout" -> "running"
           [] OTHER -> "exited"

\* ------------------------------------------------------------------------
\* The hooks, tools and inputs of the model
\* ------------------------------------------------------------------------
Write == <<"W", "r", "i", "t", "e">>
Delete == <<"D", "e", "l", "e", "t", "e">>
Read == <<"R", "e", "a", "d">>
WriteOrDelete == Write \o <<"|">> \o Delete
ToolNames == {Write, Delete, Read}

DefaultTimeout == 30

\* the hook objects as constructed, by name: one wraps a function and matches
\* every tool, one names its handler by a module path and matches two tools
HookNames == {"any", "block_writes"}
NewHooks ==
    [n \in HookNames |->
        IF n = "any" THEN PythonCallableHook_init(n, Fn, Star, DefaultTimeout)
        ELSE PythonCallableHook_init(n, Str("missing.block_writes"), WriteOrDelete,
                                     DefaultTimeout)]

AgentIds == {"agent-1", "agent-2"}
\* the agent that registers hooks of its own in the pipeline specifications
PipelineAgents == {"agent-1"}

D1 == Dict([a |-> PyInt(1)])
D2 == Dict([a |-> PyInt(2)])
DBad == Dict([a |-> Obj])
InjX == Dict([content |-> Str("X"), strategy |-> Str("tool_result")])
InjY == Dict([content |-> Str("Y"), strategy |-> Str("user_message")])
NoMeta == Dict(EmptyMap)

\* behaviours of a hook function that decide: allow, deny (with a reason,
\* without, as a map whose metadata is null), ask, no result, a fault
DecisionOutcomes ==
    { RetVal(HR(HookResult_allow)),
      RetVal(HR(HookResult_deny(Str("Denied!")))),
      RetVal(HR(HookResult_deny(None))),
      RetVal(Dict([decision |-> "deny", metadata |-> None])),
      RetVal(HR(HookResult_ask(Str("Need confirmation")))),
      RetVal(None),
      Raises,
      TimesOut }

\* behaviours of a hook function that carry data: rewritten arguments
\* (serializable or not) and injections (well-formed or not)
DataOutcomes ==
    { RetVal(HR(HookResult_allow)),
      RetVal(HR(HookResult_deny(Str("Denied!")))),
      RetVal(HR(HookResult(TRUE, NoMeta, None, "allow", None, D1, None))),
      RetVal(HR(HookResult(TRUE, NoMeta, None, "allow", None, D2, None))),
      RetVal(HR(HookResult(TRUE, NoMeta, None, "allow", None, DBad, None))),
      RetVal(HR(HookResult(TRUE, NoMeta, None, "allow", None, None, InjX))),
      RetVal(HR(HookResult(TRUE, NoMeta, None, "allow", None, None, InjY))),
      RetVal(Dict([inject |-> Str("not a map")])) }

\* argument strings a caller passes
ArgStrings == {Str("{\"a\":1}")}
\* context maps a caller passes
Contexts == {EmptyMap} \cup {[agent_id |-> Str(a)] : a \in AgentIds}

\* ------------------------------------------------------------------------
\* State
\* ------------------------------------------------------------------------
VARIABLES
    \* the hook objects (execute may store a lazily imported callable)
    Hooks,
    \* GeneralHookManager: the registry
    global_hooks,      \* _global_hooks: HookType -> list of hooks (by name)
    agent_hooks,       \* _agent_hooks: agent id -> HookType -> list of hooks
    agent_overrides,   \* _agent_overrides: agent id -> HookType -> bool
    reglog,            \* history kept by SpecRegistry: registrations since the last clear
    cleared,           \* history kept by SpecClear: what the last clear_hooks wiped
    invs,              \* SpecConcurrent: two execute_hooks invocations in flight at once
    \* one execute_hooks invocation: its parameters and locals
    pc,                \* "idle" | "loop" (suspended before the next hook) | "returned" | "raised"
    hook_type,
    function_name,
    arguments,
    context,           \* the caller's context map (execute_hooks writes into it)
    matching_hooks,
    final_result,
    modified_args,
    all_injections,
    calls,             \* history: the hook.execute calls made by this invocation
    ret,               \* the HookResult returned to the caller
    \* a hook constructed and executed directly, as the unit tests do
    test

registry == <<global_hooks, agent_hooks, agent_overrides>>
locals == <<hook_type, function_name, arguments, matching_hooks, final_result,
            modified_args, all_injections, calls, ret>>
vars == <<Hooks, global_hooks, agent_hooks, agent_overrides, reglog, cleared, invs, pc, hook_type,
          function_name, arguments, context, matching_hooks, final_result, modified_args,
          all_injections, calls, ret, test>>

\* no hook constructed yet by the direct test
NoTest ==
    [pc |-> "new", kwargs |-> EmptyMap, fn |-> Raises, hook |-> None, tool |-> <<>>,
     result |-> None]

\* the two coroutines that may run execute_hooks at once, and one that is not
\* running it
Invocations == {1, 2}
IdleInvocation == [pc |-> "idle"]

\* clear_hooks has not run yet
NotCleared == [done |-> FALSE, overriding |-> {}]

NoHooks == [t \in HookType |-> <<>>]
NoOverrides == [t \in HookType |-> FALSE]

\* GeneralHookManager.__init__, the hooks constructed, no invocation in flight
Init ==
    /\ Hooks = NewHooks
    /\ global_hooks = NoHooks
    /\ agent_hooks = EmptyMap
    /\ agent_overrides = EmptyMap
    /\ reglog = <<>>
    /\ cleared = NotCleared
    /\ invs = [i \in Invocations |-> IdleInvocation]
    /\ pc = "idle"
    /\ hook_type = PRE_TOOL_USE
    /\ function_name = <<>>
    /\ arguments = None
    /\ context = EmptyMap
    /\ matching_hooks = <<>>
    /\ final_result = HookResult_allow
    /\ modified_args = None
    /\ all_injections = <<>>
    /\ calls = <<>>
    /\ ret = None
    /\ test = NoTest

\* ------------------------------------------------------------------------
\* GeneralHookManager: registration
\* ------------------------------------------------------------------------
register_global_hook(type, hook) ==
    /\ global_hooks' = [global_hooks EXCEPT ![type] = Append(@, hook)]
    /\ UNCHANGED <<agent_hooks, agent_overrides>>

\* a registration that overwrites the override flag instead of latching it
register_agent_hook_unlatched(agent_id, type, hook, override) ==
    LET hooks0 == IF agent_id \in DOMAIN agent_hooks THEN agent_hooks
                  ELSE (agent_id :> NoHooks) @@ agent_hooks
        over0 == IF agent_id \in DOMAIN agent_hooks THEN agent_overrides
                 ELSE (agent_id :> NoOverrides) @@ agent_overrides
    IN /\ agent_hooks' = [hooks0 EXCEPT ![agent_id][type] = Append(@, hook)]
       /\ agent_overrides' = [over0 EXCEPT ![agent_id][type] = override]
       /\ UNCHANGED global_hooks

\* a registration whose override covers every phase of the agent
register_agent_hook_every_phase(agent_id, type, hook, override) ==
    LET hooks0 == IF agent_id \in DOMAIN agent_hooks THEN agent_hooks
                  ELSE (agent_id :> NoHooks) @@ agent_hooks
        over0 == IF agent_id \in DOMAIN agent_hooks THEN agent_overrides
                 ELSE (agent_id :> NoOverrides) @@ agent_overrides
    IN /\ agent_hooks' = [hooks0 EXCEPT ![agent_id][type] = Append(@, hook)]
       /\ agent_overrides' = IF override
                             THEN [over0 EXCEPT ![agent_id] = [t \in HookType |-> TRUE]]
                             ELSE over0
       /\ UNCHANGED global_hooks

register_agent_hook(agent_id, type, hook, override) ==
    LET hooks0 == IF agent_id \in DOMAIN agent_hooks THEN agent_hooks
                  ELSE (agent_id :> NoHooks) @@ agent_hooks
        over0 == IF agent_id \in DOMAIN agent_hooks THEN agent_overrides
                 ELSE (agent_id :> NoOverrides) @@ agent_overrides
    IN /\ agent_hooks' = [hooks0 EXCEPT ![agent_id][type] = Append(@, hook)]
       /\ agent_overrides' = IF override THEN [over0 EXCEPT ![agent_id][type] = TRUE]
                             ELSE over0
       /\ UNCHANGED global_hooks

\* a clear that empties the lists and keeps the override flags
clear_hooks_keep_overrides ==
    /\ global_hooks' = NoHooks
    /\ agent_hooks' = [a \in DOMAIN agent_hooks |-> NoHooks]
    /\ UNCHANGED agent_overrides

clear_hooks ==
    /\ global_hooks' = NoHooks
    /\ agent_hooks' = EmptyMap
    /\ agent_overrides' = EmptyMap

\* a lookup that puts the agent's hooks before the global ones
get_hooks_for_agent_agent_first(agent_id, type) ==
    IF /\ Truthy(agent_id)
       /\ agent_id.val \in DOMAIN agent_overrides
       /\ Get(agent_overrides[agent_id.val], type, FALSE)
    THEN Get(Get(agent_hooks, agent_id.val, EmptyMap), type, <<>>)
    ELSE (IF Truthy(agent_id) /\ agent_id.val \in DOMAIN agent_hooks
          THEN Get(agent_hooks[agent_id.val], type, <<>>) ELSE <<>>)
         \o Get(global_hooks, type, <<>>)

\* get_hooks_for_agent(agent_id, hook_type); agent_id is None or a str
get_hooks_for_agent(agent_id, type) ==
    IF /\ Truthy(agent_id)
       /\ agent_id.val \in DOMAIN agent_overrides
       /\ Get(agent_overrides[agent_id.val], type, FALSE)
    THEN Get(Get(agent_hooks, agent_id.val, EmptyMap), type, <<>>)
    ELSE Get(global_hooks, type, <<>>)
         \o (IF Truthy(agent_id) /\ agent_id.val \in DOMAIN agent_hooks
             THEN Get(agent_hooks[agent_id.val], type, <<>>) ELSE <<>>)

\* ------------------------------------------------------------------------
\* GeneralHookManager.execute_hooks
\* ------------------------------------------------------------------------
\* a pipeline that runs every effective hook
MatchingHooks_unfiltered(hooks, tool_name) == hooks

\* [h for h in hooks if h.matches(function_name)]
MatchingHooks(hooks, tool_name) == SelectSeq(hooks, LAMBDA h : matches(Hooks[h], tool_name))

\* a deny test that also stops on ask
IsDeny_or_ask(result) == ~result.allowed \/ result.decision \in {"deny", "ask"}

\* the deny test of the loop
IsDeny(result) == ~result.allowed \/ result.decision = "deny"

\* `result.reason or result.metadata.get("reason", ...)`: the right operand is
\* evaluated when reason is falsy, and raises AttributeError when metadata is
\* not a dict
DenyReasonRaises(result) == ~Truthy(result.reason) /\ result.metadata.type # "dict"
DenyReason(result, hook) ==
    IF Truthy(result.reason) THEN result.reason
    ELSE DictGet(result.metadata, "reason", Str("Denied by hook " \o hook.name))

\* the ask branch
HandleAsk(fr, result) ==
    IF result.decision = "ask" THEN [fr EXCEPT !.decision = "ask", !.reason = result.reason]
    ELSE fr

\* the argument chain: json.dumps raises TypeError on an unserializable map
ChainRaises(result) ==
    result.modified_args = None /\ result.updated_input # None
    /\ ~Serializable(result.updated_input)
\* a chain that passes on only the legacy modified_args field
ChainArgs_legacy_only(margs, result) ==
    IF result.modified_args # None THEN result.modified_args ELSE margs

ChainArgs(margs, result) ==
    IF result.modified_args # None THEN result.modified_args
    ELSE IF result.updated_input # None THEN json_dumps(result.updated_input)
    ELSE margs

CollectInjection(injs, result) ==
    IF Truthy(result.inject) THEN Append(injs, result.inject) ELSE injs

\* one iteration of the for loop, after hook.execute has returned `result`.
\* exit = "return": the loop returned `ret`; exit = "next": go on with the next
\* hook (swallowed: the except branch caught an error of the iteration)
LoopBody(hook, result, fr, margs, injs) ==
    IF IsDeny(result)
    THEN IF DenyReasonRaises(result)
         THEN [exit |-> "next", swallowed |-> TRUE, ret |-> None,
               final_result |-> fr, modified_args |-> margs, all_injections |-> injs]
         ELSE [exit |-> "return", swallowed |-> FALSE,
               ret |-> HR(HookResult_deny(DenyReason(result, hook))),
               final_result |-> fr, modified_args |-> margs, all_injections |-> injs]
    ELSE IF ChainRaises(result)
         THEN [exit |-> "next", swallowed |-> TRUE, ret |-> None,
               final_result |-> HandleAsk(fr, result), modified_args |-> margs,
               all_injections |-> injs]
         ELSE [exit |-> "next", swallowed |-> FALSE, ret |-> None,
               final_result |-> HandleAsk(fr, result),
               modified_args |-> ChainArgs(margs, result),
               all_injections |-> CollectInjection(injs, result)]

\* "\n".join(parts) for a sequence of strings
RECURSIVE JoinNL(_)
JoinNL(parts) ==
    IF parts = <<>> THEN ""
    ELSE IF Len(parts) = 1 THEN parts[1]
    ELSE parts[1] \o "\n" \o JoinNL(Tail(parts))

\* building the combined injection raises when an injection is not a map
\* (inj.get) or its content is not a string (str.join)
CombineRaises(injs) ==
    \E i \in 1..Len(injs) :
        \/ injs[i].type # "dict"
        \/ (Truthy(DictGet(injs[i], "content", None))
            /\ DictGet(injs[i], "content", None).type # "str")

CombinedContent(injs) ==
    LET kept == SelectSeq(injs, LAMBDA inj : Truthy(DictGet(inj, "content", None)))
    IN JoinNL([i \in 1..Len(kept) |-> DictGet(kept[i], "content", Str("")).val])

\* the strategy of the last injection that has content
CombinedStrategy_contributing(injs) ==
    LET kept == SelectSeq(injs, LAMBDA inj : Truthy(DictGet(inj, "content", None)))
    IN DictGet(kept[Len(kept)], "strategy", Str("tool_result"))

\* first writer wins
CombinedStrategy_first(injs) == DictGet(injs[1], "strategy", Str("tool_result"))

CombinedStrategy(injs) == DictGet(injs[Len(injs)], "strategy", Str("tool_result"))

\* a final result that carries the arguments of the chain's end even when they
\* are the original ones
BuildFinal_always_args(fr, margs, args, injs) ==
    LET fr1 == [fr EXCEPT !.modified_args = margs]
    IN IF injs # <<>> /\ CombinedContent(injs) # ""
       THEN [fr1 EXCEPT !.inject = Dict([content |-> Str(CombinedContent(injs)),
                                         strategy |-> CombinedStrategy(injs)])]
       ELSE fr1

\* "Build final result", when it does not raise
BuildFinal(fr, margs, args, injs) ==
    LET fr1 == [fr EXCEPT !.modified_args = IF margs # args THEN margs ELSE None]
    IN IF injs # <<>> /\ CombinedContent(injs) # ""
       THEN [fr1 EXCEPT !.inject = Dict([content |-> Str(CombinedContent(injs)),
                                         strategy |-> CombinedStrategy(injs)])]
       ELSE fr1

\* execute_hooks up to its first suspension: the effective hooks are resolved,
\* tool_output is written into the caller's context, the matching hooks are
\* filtered; with nothing to run it returns allow at once
ExecStart(type, tool_name, args, ctx, tool_output) ==
    /\ pc = "idle"
    /\ LET agent_id == Get(ctx, "agent_id", None)
           hooks == get_hooks_for_agent(agent_id, type)
           matching == MatchingHooks(hooks, tool_name)
       IN /\ hook_type' = type
          /\ function_name' = tool_name
          /\ arguments' = args
          /\ context' = IF tool_output # None THEN ("tool_output" :> tool_output) @@ ctx
                        ELSE ctx
          /\ matching_hooks' = matching
          /\ final_result' = HookResult_allow
          /\ modified_args' = args
          /\ all_injections' = <<>>
          /\ calls' = <<>>
          /\ IF matching = <<>>
             THEN pc' = "returned" /\ ret' = HR(HookResult_allow)
             ELSE pc' = "loop" /\ ret' = None
    /\ UNCHANGED <<Hooks, registry, reglog, cleared, invs, test>>

\* a loop that starts over from the first matching hook at every turn
CurrentHook_first == matching_hooks[1]

\* a loop that reads the registry again at every turn
CurrentHook_live ==
    LET live == MatchingHooks(get_hooks_for_agent(Get(context, "agent_id", None), hook_type),
                              function_name)
    IN IF Len(calls) + 1 <= Len(live) THEN live[Len(calls) + 1]
       ELSE matching_hooks[Len(calls) + 1]

\* `for hook in matching_hooks`: the hook of the turn, the turns before having
\* each added one call
CurrentHook == matching_hooks[Len(calls) + 1]

\* one hook of the chain: hook.execute is awaited with the current arguments and
\* a copy of the context, its result is folded in; after the last hook the
\* final result is built and returned
HookStep(outcome) ==
    /\ pc = "loop"
    /\ LET name == CurrentHook
           hook == Hooks[name]
           result == PythonCallableHook_execute(hook, function_name, modified_args,
                                                context, outcome)
           body == LoopBody(hook, result, final_result, modified_args, all_injections)
           last == Len(calls) + 1 = Len(matching_hooks)
       IN /\ calls' = Append(calls, [hook |-> name, arguments |-> modified_args,
                                     fn |-> outcome.kind, result |-> result,
                                     swallowed |-> body.swallowed,
                                     event |-> EventSeen(hook, function_name, context,
                                                         outcome)])
          /\ modified_args' = body.modified_args
          /\ all_injections' = body.all_injections
          /\ IF body.exit = "return"
             THEN pc' = "returned" /\ ret' = body.ret /\ final_result' = body.final_result
             ELSE IF ~last
             THEN pc' = "loop" /\ ret' = None /\ final_result' = body.final_result
             ELSE IF CombineRaises(body.all_injections)
             THEN /\ pc' = "raised"
                  /\ ret' = None
                  /\ final_result' = [body.final_result EXCEPT !.modified_args =
                        IF body.modified_args # arguments THEN body.modified_args ELSE None]
             ELSE /\ pc' = "returned"
                  /\ final_result' = BuildFinal(body.final_result, body.modified_args,
                                                arguments, body.all_injections)
                  /\ ret' = HR(final_result')
          /\ Hooks' = [Hooks EXCEPT ![name] = AfterExecute(hook, function_name, outcome)]
    /\ UNCHANGED <<registry, reglog, cleared, invs, hook_type, function_name, arguments, context,
                   matching_hooks, test>>

\* the caller has its result (or its exception) and drops its context map; the
\* manager is idle again
CallerContinue ==
    /\ pc \in {"returned", "raised"}
    /\ pc' = "idle"
    /\ hook_type' = PRE_TOOL_USE
    /\ function_name' = <<>>
    /\ arguments' = None
    /\ matching_hooks' = <<>>
    /\ final_result' = HookResult_allow
    /\ modified_args' = None
    /\ all_injections' = <<>>
    /\ calls' = <<>>
    /\ ret' = None
    /\ context' = EmptyMap
    /\ UNCHANGED <<Hooks, registry, reglog, cleared, invs, test>>

\* ------------------------------------------------------------------------
\* Specifications
\* ------------------------------------------------------------------------
\* the tool output a caller passes: PostToolUse calls pass the tool's output
ToolOutputs(type) == IF type = POST_TOOL_USE THEN {Str("output")} ELSE {None}

\* what a call of `hook` may meet, the function behaving as one of `fns`
Outcomes(hook, tool_name, fns) ==
    fns \cup (IF NeedsImport(hook, tool_name) THEN {ImportFails} ELSE {})

\* hooks registered, over all lists
RECURSIVE SumLen(_, _)
SumLen(f, S) ==
    IF S = {} THEN 0
    ELSE LET x == CHOOSE x \in S : TRUE IN Len(f[x]) + SumLen(f, S \ {x})
RECURSIVE Registered(_)
Registered(S) ==
    IF S = {} THEN SumLen(global_hooks, HookType)
    ELSE LET a == CHOOSE a \in S : TRUE
         IN SumLen(agent_hooks[a], HookType) + Registered(S \ {a})

Unobserved == UNCHANGED <<Hooks, cleared, invs, pc, locals, context, test>>

RegisterGlobal ==
    \E t \in HookType, h \in HookNames :
        /\ register_global_hook(t, h)
        /\ reglog' = Append(reglog, [scope |-> "global", agent |-> "", type |-> t,
                                     hook |-> h, override |-> FALSE])
        /\ Unobserved
RegisterAgent ==
    \E a \in AgentIds, t \in HookType, h \in HookNames, o \in BOOLEAN :
        /\ register_agent_hook(a, t, h, o)
        /\ reglog' = Append(reglog, [scope |-> "agent", agent |-> a, type |-> t,
                                     hook |-> h, override |-> o])
        /\ Unobserved
Clear == clear_hooks /\ reglog' = <<>> /\ Unobserved

\* the registry alone, under any sequence of registrations and clears
NextRegistry ==
    \/ Len(reglog) < MaxRegs /\ RegisterGlobal
    \/ Len(reglog) < MaxRegs /\ RegisterAgent
    \/ reglog # <<>> /\ Clear

SpecRegistry == Init /\ [][NextRegistry]_vars

\* setup for the pipeline: the registry is filled while no invocation is in flight
SetupGlobal ==
    /\ pc = "idle"
    /\ Registered(DOMAIN agent_hooks) < MaxPipeRegs
    /\ \E t \in HookType, h \in HookNames : register_global_hook(t, h)
    /\ UNCHANGED reglog /\ Unobserved
SetupAgent ==
    /\ pc = "idle"
    /\ Registered(DOMAIN agent_hooks) < MaxPipeRegs
    /\ \E a \in PipelineAgents, t \in HookType, h \in HookNames, o \in BOOLEAN :
          register_agent_hook(a, t, h, o)
    /\ UNCHANGED reglog /\ Unobserved
Teardown ==
    /\ pc = "idle"
    /\ Registered(DOMAIN agent_hooks) > 0
    /\ clear_hooks
    /\ UNCHANGED reglog /\ Unobserved

Start ==
    \E t \in HookType, n \in ToolNames, a \in ArgStrings, c \in Contexts :
        \E o \in ToolOutputs(t) : ExecStart(t, n, a, c, o)

NextHook == Hooks[matching_hooks[Len(calls) + 1]]

\* invocations whose hook functions decide
StepDecision ==
    /\ pc = "loop"
    /\ \E o \in Outcomes(NextHook, function_name, DecisionOutcomes) : HookStep(o)
Next ==
    \/ SetupGlobal
    \/ SetupAgent
    \/ Teardown
    \/ Start
    \/ StepDecision
    \/ CallerContinue

Spec == Init /\ [][Next]_vars

\* invocations whose hook functions rewrite arguments and inject content
StepData ==
    /\ pc = "loop"
    /\ \E o \in Outcomes(NextHook, function_name, DataOutcomes) : HookStep(o)
NextData ==
    \/ SetupGlobal
    \/ SetupAgent
    \/ Teardown
    \/ Start
    \/ StepData
    \/ CallerContinue

SpecData == Init /\ [][NextData]_vars

\* the caller has its result and keeps its context map for its next call
CallerKeepsContext ==
    /\ pc \in {"returned", "raised"}
    /\ pc' = "idle"
    /\ hook_type' = PRE_TOOL_USE
    /\ function_name' = <<>>
    /\ arguments' = None
    /\ matching_hooks' = <<>>
    /\ final_result' = HookResult_allow
    /\ modified_args' = None
    /\ all_injections' = <<>>
    /\ calls' = <<>>
    /\ ret' = None
    /\ UNCHANGED <<Hooks, registry, reglog, cleared, invs, context, test>>

\* execute_hooks called with the context map of the caller's previous call
StartReuse ==
    \E t \in HookType, n \in ToolNames, a \in ArgStrings :
        \E o \in ToolOutputs(t) : ExecStart(t, n, a, context, o)

\* hook functions that only look at the event
ObserverOutcomes == {RetVal(None)}
StepObserve ==
    /\ pc = "loop"
    /\ \E o \in Outcomes(NextHook, function_name, ObserverOutcomes) : HookStep(o)

\* a caller that passes one context map to its PostToolUse and PreToolUse calls
NextReuse ==
    \/ SetupGlobal
    \/ Start
    \/ StartReuse
    \/ StepObserve
    \/ CallerKeepsContext

SpecReuse == Init /\ [][NextReuse]_vars

\* ------------------------------------------------------------------------
\* Two execute_hooks invocations interleaved at their awaits
\* ------------------------------------------------------------------------
\* hook functions that ask, rewrite the arguments and inject at once, that
\* rewrite and inject, and that deny
ConcurrentOutcomes ==
    { RetVal(HR(HookResult(TRUE, NoMeta, None, "ask", Str("Need confirmation"), D1, InjX))),
      RetVal(HR(HookResult(TRUE, NoMeta, None, "allow", None, D2, InjY))),
      RetVal(HR(HookResult_deny(Str("Denied!")))) }
ConcurrentTools == {Write, Read}

\* a frame that reads the locals of the other invocation while that one runs
Frame_shared(i) ==
    LET j == CHOOSE j \in Invocations : j # i
    IN IF invs[j].pc = "loop"
       THEN [invs[i] EXCEPT !.final_result = invs[j].final_result,
                            !.modified_args = invs[j].modified_args,
                            !.all_injections = invs[j].all_injections]
       ELSE invs[i]

\* the frame of invocation i: the parameters and locals of its execute_hooks
\* coroutine
Frame(i) == invs[i]

\* invocation i: execute_hooks up to its first await
StartInvocation(i) ==
    /\ invs[i].pc = "idle"
    /\ \E t \in HookType, n \in ConcurrentTools, a \in ArgStrings :
          \E o \in ToolOutputs(t) :
              LET matching == MatchingHooks(get_hooks_for_agent(None, t), n)
              IN invs' = [invs EXCEPT ![i] =
                     [pc |-> IF matching = <<>> THEN "returned" ELSE "loop",
                      hook_type |-> t, function_name |-> n, arguments |-> a,
                      context |-> IF o # None THEN ("tool_output" :> o) @@ EmptyMap
                                  ELSE EmptyMap,
                      matching_hooks |-> matching,
                      final_result |-> HookResult_allow,
                      modified_args |-> a,
                      all_injections |-> <<>>,
                      calls |-> <<>>,
                      ret |-> IF matching = <<>> THEN HR(HookResult_allow) ELSE None]]
    /\ UNCHANGED <<Hooks, registry, reglog, cleared, pc, locals, context, test>>

\* invocation i resumes: the hook it awaited has returned, the result is folded
\* into its locals, and it awaits the next hook or returns
StepInvocation(i) ==
    /\ invs[i].pc = "loop"
    /\ LET f == Frame(i)
           name == f.matching_hooks[Len(f.calls) + 1]
           hook == Hooks[name]
       IN \E outcome \in Outcomes(hook, f.function_name, ConcurrentOutcomes) :
          LET result == PythonCallableHook_execute(hook, f.function_name, f.modified_args,
                                                   f.context, outcome)
              body == LoopBody(hook, result, f.final_result, f.modified_args,
                               f.all_injections)
              last == Len(f.calls) + 1 = Len(f.matching_hooks)
              called == Append(f.calls, [hook |-> name, arguments |-> f.modified_args,
                                         fn |-> outcome.kind, result |-> result,
                                         swallowed |-> body.swallowed])
              g == [f EXCEPT !.calls = called,
                             !.modified_args = body.modified_args,
                             !.all_injections = body.all_injections,
                             !.final_result = body.final_result]
          IN /\ invs' = [invs EXCEPT ![i] =
                    IF body.exit = "return"
                    THEN [g EXCEPT !.pc = "returned", !.ret = body.ret]
                    ELSE IF ~last THEN g
                    ELSE IF CombineRaises(body.all_injections)
                    THEN [g EXCEPT !.pc = "raised"]
                    ELSE LET final == BuildFinal(body.final_result, body.modified_args,
                                                 f.arguments, body.all_injections)
                         IN [g EXCEPT !.pc = "returned", !.final_result = final,
                                      !.ret = HR(final)]]
             /\ Hooks' = [Hooks EXCEPT ![name] = AfterExecute(hook, f.function_name, outcome)]
    /\ UNCHANGED <<registry, reglog, cleared, pc, locals, context, test>>

\* the caller of invocation i has its result
ReturnInvocation(i) ==
    /\ invs[i].pc \in {"returned", "raised"}
    /\ invs' = [invs EXCEPT ![i] = IdleInvocation]
    /\ UNCHANGED <<Hooks, registry, reglog, cleared, pc, locals, context, test>>

\* the registry is set up while no invocation is in flight
SetupShared ==
    /\ \A i \in Invocations : invs[i].pc = "idle"
    /\ SetupGlobal

NextConcurrent ==
    \/ SetupShared
    \/ \E i \in Invocations : StartInvocation(i)
    \/ \E i \in Invocations : StepInvocation(i)
    \/ \E i \in Invocations : ReturnInvocation(i)

SpecConcurrent == Init /\ [][NextConcurrent]_vars

\* the (agent, phase) pairs whose override flag is set
Overriding ==
    {p \in AgentIds \X HookType :
        p[1] \in DOMAIN agent_overrides /\ agent_overrides[p[1]][p[2]]}

\* clear_hooks, the history remembering which overrides it wiped
ClearRecorded ==
    /\ clear_hooks
    /\ reglog' = <<>>
    /\ cleared' = [done |-> TRUE, overriding |-> Overriding]
    /\ UNCHANGED <<Hooks, invs, pc, locals, context, test>>

\* setup, teardown and setup again, with execute_hooks called while the
\* registry is empty
NextClear ==
    \/ pc = "idle" /\ Len(reglog) < MaxPipeRegs /\ RegisterGlobal
    \/ pc = "idle" /\ Len(reglog) < MaxPipeRegs /\ RegisterAgent
    \/ pc = "idle" /\ ClearRecorded
    \/ Registered(DOMAIN agent_hooks) = 0 /\ Start
    \/ CallerContinue

SpecClear == Init /\ [][NextClear]_vars

\* ------------------------------------------------------------------------
\* The registry changed while an invocation is suspended at an await
\* ------------------------------------------------------------------------
\* register_global_hook, register_agent_hook and clear_hooks called by another
\* task at any moment, an invocation being in flight or not
DuringGlobal ==
    /\ Registered(DOMAIN agent_hooks) < MaxPipeRegs
    /\ \E t \in HookType, h \in HookNames : register_global_hook(t, h)
    /\ UNCHANGED reglog /\ Unobserved
DuringAgent ==
    /\ Registered(DOMAIN agent_hooks) < MaxPipeRegs
    /\ \E a \in PipelineAgents, t \in HookType, h \in HookNames, o \in BOOLEAN :
          register_agent_hook(a, t, h, o)
    /\ UNCHANGED reglog /\ Unobserved
DuringClear ==
    /\ Registered(DOMAIN agent_hooks) > 0
    /\ clear_hooks
    /\ UNCHANGED reglog /\ Unobserved

\* the agent with hooks of its own calls a tool
StartAgent ==
    \E t \in HookType, n \in {Write, Read}, a \in ArgStrings, c \in PipelineAgents :
        \E o \in ToolOutputs(t) : ExecStart(t, n, a, [agent_id |-> Str(c)], o)

NextSnapshot ==
    \/ DuringGlobal
    \/ DuringAgent
    \/ DuringClear
    \/ StartAgent
    \/ StepObserve
    \/ CallerContinue

SpecSnapshot == Init /\ [][NextSnapshot]_vars

\* ------------------------------------------------------------------------
\* A hook constructed and executed directly
\* ------------------------------------------------------------------------
\* keyword parameters PythonCallableHook.__init__ accepts besides name,
\* handler, matcher and timeout: none
ExtraKeywords == {}

\* PythonCallableHook(name, handler, matcher=..., timeout=..., **kwargs) for a
\* handler function behaving as fn: a keyword the signature does not declare
\* makes the call raise TypeError and no hook exists
Construct(name, handler, matcher, timeout, kwargs, fn) ==
    /\ test.pc = "new"
    /\ test' = IF DOMAIN kwargs \subseteq ExtraKeywords
               THEN [pc |-> "constructed", kwargs |-> kwargs, fn |-> fn,
                     hook |-> PythonCallableHook_init(name, handler, matcher, timeout),
                     tool |-> <<>>, result |-> None, work |-> "none"]
               ELSE [pc |-> "type_error", kwargs |-> kwargs, fn |-> fn, hook |-> None,
                     tool |-> <<>>, result |-> None, work |-> "none"]
    /\ UNCHANGED <<Hooks, registry, reglog, cleared, invs, pc, locals, context>>

\* result = await hook.execute(tool_name, args)
DirectExecute(tool_name, args, outcome) ==
    /\ test.pc = "constructed"
    /\ test' = [test EXCEPT
                  !.pc = "executed",
                  !.fn = outcome,
                  !.tool = tool_name,
                  !.hook = AfterExecute(test.hook, tool_name, outcome),
                  !.work = WorkAfter(test.hook, tool_name, outcome),
                  !.result = PythonCallableHook_execute(test.hook, tool_name, args,
                                                        EmptyMap, outcome)]
    /\ UNCHANGED <<Hooks, registry, reglog, cleared, invs, pc, locals, context>>

TestDone ==
    /\ test.pc \in {"executed", "type_error", "decoded"}
    /\ test' = NoTest
    /\ UNCHANGED <<Hooks, registry, reglog, cleared, invs, pc, locals, context>>

\* a function, a coroutine function, a module path, and an empty path
Handlers == {Fn, CoFn, Str("missing.block_writes"), Str("")}
Writer == Write \o <<"r">>
\* matchers: "*", "Write|Delete", "", " Write | Delete ", "Writ*", "W?ite", "rit", "|"
SpacedWriteOrDelete == <<" ">> \o Write \o <<" ", "|", " ">> \o Delete \o <<" ">>
Matchers ==
    { Star, WriteOrDelete, <<>>, SpacedWriteOrDelete,
      <<"W", "r", "i", "t", "*">>, <<"W", "?", "i", "t", "e">>, <<"r", "i", "t">>, <<"|">> }
\* tool names a direct call passes
DirectToolNames == ToolNames \cup {Writer}
KeywordArgs == {EmptyMap, [fail_closed |-> TRUE], [fail_closed |-> FALSE]}

ConstructHook ==
    \E h \in Handlers, m \in Matchers, k \in KeywordArgs, f \in DecisionOutcomes :
        Construct("test", h, m, DefaultTimeout, k, f)
\* the call meets the behaviour of the handler function, or a failing import
ExecuteHook ==
    /\ test.pc = "constructed"
    /\ \E n \in DirectToolNames, a \in ArgStrings :
          \E o \in Outcomes(test.hook, n, {test.fn})
                   \cup (IF NeedsImport(test.hook, n) THEN {ImportsNonCallable} ELSE {}) :
              DirectExecute(n, a, o)

NextHookTest ==
    \/ ConstructHook
    \/ ExecuteHook
    \/ TestDone

SpecHook == Init /\ [][NextHookTest]_vars

\* ------------------------------------------------------------------------
\* A command hook constructed and executed directly
\* ------------------------------------------------------------------------
CommandMatchers == {Star, WriteOrDelete, <<>>}
ReturnCodes == {0, 1, 2}
Stdouts == {Bytes(d[1]) : d \in JsonDocs} \cup {Bytes("hello"), Bytes(""), BadBytes}
ProcessOutcomes ==
    {Exits(c, o) : c \in ReturnCodes, o \in Stdouts} \cup {SpawnFails, TimesOut}

\* ExternalCommandHook("cmd", "hook.py", matcher=m)
ConstructCommand ==
    /\ test.pc = "new"
    /\ \E m \in CommandMatchers :
          test' = [pc |-> "constructed", kwargs |-> EmptyMap, fn |-> Raises,
                   hook |-> ExternalCommandHook_init("cmd", Str("hook.py"), m, DefaultTimeout),
                   tool |-> <<>>, result |-> None, proc |-> "none"]
    /\ UNCHANGED <<Hooks, registry, reglog, cleared, invs, pc, locals, context>>

\* result = await hook.execute(tool_name, args), the process behaving as o
ExecuteCommand ==
    /\ test.pc = "constructed"
    /\ \E n \in ToolNames, a \in ArgStrings, o \in ProcessOutcomes :
          test' = [test EXCEPT
                     !.pc = "executed",
                     !.fn = o,
                     !.tool = n,
                     !.result = ExternalCommandHook_execute(test.hook, n, a, EmptyMap, o),
                     !.proc = ProcessAfter(test.hook, n, o)]
    /\ UNCHANGED <<Hooks, registry, reglog, cleared, invs, pc, locals, context>>

NextCommand ==
    \/ ConstructCommand
    \/ ExecuteCommand
    \/ TestDone

SpecCommand == Init /\ [][NextCommand]_vars

\* ------------------------------------------------------------------------
\* HookResult values built, written to the wire and read back
\* ------------------------------------------------------------------------
Decisions == {"allow", "deny", "ask"}
\* the wire map of a HookResult: the stdout document of the command protocol
to_wire(r) ==
    [allowed |-> r.allowed, decision |-> r.decision, reason |-> r.reason,
     updated_input |-> r.updated_input, inject |-> r.inject]
\* a map restricted to some of its keys
Restrict(f, keys) == [k \in keys |-> f[k]]
\* the key sets of a decoded map: "allowed" and "decision" present or absent
WireKeySets ==
    { {"reason", "updated_input", "inject"} \cup legacy \cup new :
        legacy \in {{}, {"allowed"}}, new \in {{}, {"decision"}} }

Made(via, allowed, decision, result) ==
    [pc |-> "made", via |-> via, input |-> [allowed |-> allowed, decision |-> decision],
     result |-> result, wire |-> EmptyMap, decoded |-> None]

\* HookResult(allowed=..., decision=..., ...) and HookResult.from_dict({...})
MakeResult ==
    /\ test.pc = "new"
    /\ \E a \in BOOLEAN, d \in Decisions, r \in {None, Str("why")}, u \in {None, D1},
          i \in {None, InjX} :
          \/ test' = Made("constructor", a, d, HookResult(a, NoMeta, None, d, r, u, i))
          \/ \E keys \in WireKeySets :
                LET data == Restrict([allowed |-> a, decision |-> d, reason |-> r,
                                      updated_input |-> u, inject |-> i], keys)
                IN test' = Made("from_dict", Get(data, "allowed", TRUE),
                                Get(data, "decision", "allow"), from_dict(data))
    /\ UNCHANGED <<Hooks, registry, reglog, cleared, invs, pc, locals, context>>

\* HookResult.allow(), HookResult.deny(reason), HookResult.ask(reason)
MakeByFactory ==
    /\ test.pc = "new"
    /\ \E r \in {None, Str("why")} :
          \/ test' = Made("allow", TRUE, "allow", HookResult_allow)
          \/ test' = Made("deny", FALSE, "deny", HookResult_deny(r))
          \/ test' = Made("ask", TRUE, "ask", HookResult_ask(r))
    /\ UNCHANGED <<Hooks, registry, reglog, cleared, invs, pc, locals, context>>

EncodeResult ==
    /\ test.pc = "made"
    /\ test' = [test EXCEPT !.pc = "encoded", !.wire = to_wire(test.result)]
    /\ UNCHANGED <<Hooks, registry, reglog, cleared, invs, pc, locals, context>>

DecodeResult ==
    /\ test.pc = "encoded"
    /\ test' = [test EXCEPT !.pc = "decoded", !.decoded = from_dict(test.wire)]
    /\ UNCHANGED <<Hooks, registry, reglog, cleared, invs, pc, locals, context>>

NextResult ==
    \/ MakeResult
    \/ MakeByFactory
    \/ EncodeResult
    \/ DecodeResult
    \/ TestDone

SpecResult == Init /\ [][NextResult]_vars

\* ------------------------------------------------------------------------
\* Hooks registered from configuration
\* ------------------------------------------------------------------------
hook_type_map == [PreToolUse |-> PRE_TOOL_USE, PostToolUse |-> POST_TOOL_USE]

\* a factory that builds a PythonCallableHook whatever the type
_create_hook_from_config_python_only(config) ==
    LET handler == Get(config, "handler", None)
    IN IF ~Truthy(handler) THEN None
       ELSE PythonCallableHook_init(Get(config, "type", Str("python")).val \o "_" \o handler.val,
                                    handler, Get(config, "matcher", Star),
                                    Get(config, "timeout", DefaultTimeout))

\* _create_hook_from_config: None when the spec names no handler
_create_hook_from_config(config) ==
    LET handler == Get(config, "handler", None)
    IN IF ~Truthy(handler) THEN None
       ELSE LET hook_handler_type == Get(config, "type", Str("python"))
                matcher == Get(config, "matcher", Star)
                timeout == Get(config, "timeout", DefaultTimeout)
                name == hook_handler_type.val \o "_" \o handler.val
            IN IF hook_handler_type = Str("command")
               THEN ExternalCommandHook_init(name, handler, matcher, timeout)
               ELSE PythonCallableHook_init(name, handler, matcher, timeout)

\* the registry as one value, and the two registrations as functions of it
Registry == [g |-> global_hooks, a |-> agent_hooks, o |-> agent_overrides]
with_global_hook(reg, type, hook) == [reg EXCEPT !.g[type] = Append(@, hook)]
with_agent_hook(reg, agent_id, type, hook, override) ==
    LET hooks0 == IF agent_id \in DOMAIN reg.a THEN reg.a ELSE (agent_id :> NoHooks) @@ reg.a
        over0 == IF agent_id \in DOMAIN reg.a THEN reg.o
                 ELSE (agent_id :> NoOverrides) @@ reg.o
    IN [reg EXCEPT !.a = [hooks0 EXCEPT ![agent_id][type] = Append(@, hook)],
                   !.o = IF override THEN [over0 EXCEPT ![agent_id][type] = TRUE] ELSE over0]

\* a phase's value in the configuration: a plain list of specs, or the dict form
ListForm(specs) == [form |-> "list", hooks |-> specs]
DictForm(d) == [form |-> "dict", dict |-> d]

\* the inner loop of register_hooks_from_config: one registration per spec
\* that gives a hook
RECURSIVE register_configs(_, _, _, _, _)
register_configs(reg, hook_configs, agent_id, type, override) ==
    IF hook_configs = <<>> THEN reg
    ELSE LET hook == _create_hook_from_config(Head(hook_configs))
             reg1 == IF hook = None THEN reg
                     ELSE IF Truthy(agent_id)
                     THEN with_agent_hook(reg, agent_id.val, type, hook, override)
                     ELSE with_global_hook(reg, type, hook)
         IN register_configs(reg1, Tail(hook_configs), agent_id, type, override)

\* the override flag recorded when the dict form is read, whatever hooks follow
RECURSIVE register_hooks_from_config_flag_first(_, _, _)
register_hooks_from_config_flag_first(reg, hooks_config, agent_id) ==
    IF hooks_config = <<>> THEN reg
    ELSE LET hook_type_name == Head(hooks_config)[1]
             value == Head(hooks_config)[2]
             rest == Tail(hooks_config)
         IN IF hook_type_name = "override" \/ hook_type_name \notin DOMAIN hook_type_map
            THEN register_hooks_from_config_flag_first(reg, rest, agent_id)
            ELSE LET type == hook_type_map[hook_type_name]
                     override == IF value.form = "dict"
                                 THEN Get(value.dict, "override", FALSE) ELSE FALSE
                     hook_configs == IF value.form = "dict"
                                     THEN Get(value.dict, "hooks", <<>>) ELSE value.hooks
                     reg0 == IF override /\ Truthy(agent_id)
                             THEN [reg EXCEPT
                                     !.a = IF agent_id.val \in DOMAIN reg.a THEN reg.a
                                           ELSE (agent_id.val :> NoHooks) @@ reg.a,
                                     !.o = [(IF agent_id.val \in DOMAIN reg.a THEN reg.o
                                             ELSE (agent_id.val :> NoOverrides) @@ reg.o)
                                            EXCEPT ![agent_id.val][type] = TRUE]]
                             ELSE reg
                 IN register_hooks_from_config_flag_first(
                        register_configs(reg0, hook_configs, agent_id, type, override),
                        rest, agent_id)

\* register_hooks_from_config(hooks_config, agent_id); hooks_config is the
\* dict's items in order
RECURSIVE register_hooks_from_config(_, _, _)
register_hooks_from_config(reg, hooks_config, agent_id) ==
    IF hooks_config = <<>> THEN reg
    ELSE LET hook_type_name == Head(hooks_config)[1]
             value == Head(hooks_config)[2]
             rest == Tail(hooks_config)
         IN IF hook_type_name = "override" \/ hook_type_name \notin DOMAIN hook_type_map
            THEN register_hooks_from_config(reg, rest, agent_id)
            ELSE LET override == IF value.form = "dict"
                                 THEN Get(value.dict, "override", FALSE) ELSE FALSE
                     hook_configs == IF value.form = "dict"
                                     THEN Get(value.dict, "hooks", <<>>) ELSE value.hooks
                 IN register_hooks_from_config(
                        register_configs(reg, hook_configs, agent_id,
                                         hook_type_map[hook_type_name], override),
                        rest, agent_id)

\* hook specs of a configuration: a python handler, a command, a spec that
\* names no handler
PyCheck == [handler |-> Str("audit.check")]
CmdCheck == [handler |-> Str("check.sh"), type |-> Str("command"), matcher |-> Write]
NoHandler == [matcher |-> Star]
PhaseValues ==
    {ListForm(<<PyCheck>>), ListForm(<<CmdCheck, PyCheck>>), ListForm(<<NoHandler, PyCheck>>),
     DictForm([override |-> TRUE, hooks |-> <<CmdCheck>>]),
     DictForm([override |-> TRUE, hooks |-> <<PyCheck, CmdCheck>>]),
     DictForm([override |-> TRUE, hooks |-> <<>>]),
     DictForm([hooks |-> <<PyCheck>>])}
\* configurations: one phase key, both phase keys, a top-level override key,
\* a key that names no phase
Configs ==
    {<<<<k, v>>>> : k \in HookType, v \in PhaseValues}
        \cup {<<<<PRE_TOOL_USE, ListForm(<<PyCheck>>)>>,
                <<POST_TOOL_USE, DictForm([override |-> TRUE, hooks |-> <<CmdCheck>>])>>>>,
              <<<<"override", ListForm(<<>>)>>, <<PRE_TOOL_USE, ListForm(<<PyCheck>>)>>>>,
              <<<<"Stop", ListForm(<<PyCheck>>)>>>>}
ConfigAgents == {None, Str("agent-1")}

\* manager.register_hooks_from_config(hooks_config, agent_id), the call and
\* the registry it found being remembered
RegisterFromConfig ==
    /\ Registered(DOMAIN agent_hooks) < MaxPipeRegs
    /\ \E cfg \in Configs, x \in ConfigAgents :
          LET reg == register_hooks_from_config(Registry, cfg, x)
          IN /\ global_hooks' = reg.g
             /\ agent_hooks' = reg.a
             /\ agent_overrides' = reg.o
             /\ test' = [pc |-> "configured", hooks_config |-> cfg, agent_id |-> x,
                         before |-> Registry]
    /\ UNCHANGED <<Hooks, reglog, cleared, invs, pc, locals, context>>

ConfigTeardown ==
    /\ Registered(DOMAIN agent_hooks) > 0
    /\ clear_hooks
    /\ test' = NoTest
    /\ UNCHANGED <<Hooks, reglog, cleared, invs, pc, locals, context>>

NextConfig ==
    \/ RegisterFromConfig
    \/ ConfigTeardown

SpecConfig == Init /\ [][NextConfig]_vars

\* the four calls that change the registry, in any order
DirectGlobal ==
    /\ Registered(DOMAIN agent_hooks) < MaxPipeRegs
    /\ \E t \in HookType, h \in HookNames : register_global_hook(t, NewHooks[h])
    /\ UNCHANGED reglog /\ Unobserved
DirectAgent ==
    /\ Registered(DOMAIN agent_hooks) < MaxPipeRegs
    /\ \E a \in AgentIds, t \in HookType, h \in HookNames, o \in BOOLEAN :
          register_agent_hook(a, t, NewHooks[h], o)
    /\ UNCHANGED reglog /\ Unobserved

NextOverride ==
    \/ DirectGlobal
    \/ DirectAgent
    \/ RegisterFromConfig
    \/ ConfigTeardown

SpecOverride == Init /\ [][NextOverride]_vars

\* ------------------------------------------------------------------------
\* Invocations whose hook functions inject, some of them without content
\* ------------------------------------------------------------------------
InjEmpty == Dict([content |-> Str(""), strategy |-> Str("user_message")])
InjBare == Dict([strategy |-> Str("user_message")])
InjZ == Dict([content |-> Str("Z")])
InjectOutcomes ==
    { RetVal(HR(HookResult_allow)),
      RetVal(HR(HookResult(TRUE, NoMeta, None, "allow", None, None, InjX))),
      RetVal(HR(HookResult(TRUE, NoMeta, None, "allow", None, None, InjY))),
      RetVal(HR(HookResult(TRUE, NoMeta, None, "allow", None, None, InjZ))),
      RetVal(HR(HookResult(TRUE, NoMeta, None, "allow", None, None, InjEmpty))),
      RetVal(HR(HookResult(TRUE, NoMeta, None, "allow", None, None, InjBare))) }
StepInject ==
    /\ pc = "loop"
    /\ \E o \in Outcomes(NextHook, function_name, InjectOutcomes) : HookStep(o)

NextInject ==
    \/ SetupGlobal
    \/ Teardown
    \/ StartAgent
    \/ StepInject
    \/ CallerContinue

SpecInject == Init /\ [][NextInject]_vars

\* ------------------------------------------------------------------------
\* PermissionClientSession.call_tool
\* ------------------------------------------------------------------------
\* the permission manager of a session: none, an object without a
\* pre_tool_use_hook attribute, an object with one
NoManager == None
BareManager == [type |-> "object", attrs |-> {}]
HookManager == [type |-> "object", attrs |-> {"pre_tool_use_hook"}]
hasattr(obj, attr) == "attrs" \in DOMAIN obj /\ attr \in obj.attrs

\* what awaiting pre_tool_use_hook(name, tool_args) gives: a pair (allowed,
\* reason), a value that does not unpack into a pair, an exception
Pair(allowed, reason) == [kind |-> "return", value |-> <<allowed, reason>>]
NotAPair == [kind |-> "return"]
HookRaises == [kind |-> "raise"]
Unpacks(o) == o.kind = "return" /\ "value" \in DOMAIN o

\* what awaiting the parent's call_tool gives: a result, an exception
ToolResult == [kind |-> "return", value |-> [content |-> <<Str("done")>>, isError |-> FALSE]]
ToolFails == [kind |-> "raise"]

\* f"Error: {error_msg}": "Error: Permission denied for tool '<tool>'", followed
\* by ": <reason>" for each element of `reasons` (one when the reason is truthy)
error_text(name, reason) ==
    [tool |-> name, reasons |-> IF Truthy(reason) THEN <<reason.val>> ELSE <<>>]

\* a call_tool that logs the denial and goes on to the parent's call_tool
call_tool_log_only(manager, name, args, hook, parent) ==
    LET tool_args == IF Truthy(args) THEN args ELSE Dict(EmptyMap)
        asks == Truthy(manager) /\ hasattr(manager, "pre_tool_use_hook")
    IN [hook_calls |-> IF asks THEN <<[name |-> name, tool_args |-> tool_args]>> ELSE <<>>,
        forwarded |-> <<[name |-> name, arguments |-> args]>>,
        outcome |-> parent]

\* PermissionClientSession.call_tool(name, arguments): the calls it made to the
\* hook and to the parent's call_tool, and what it returned or raised
call_tool(manager, name, args, hook, parent) ==
    LET tool_args == IF Truthy(args) THEN args ELSE Dict(EmptyMap)
        asks == Truthy(manager) /\ hasattr(manager, "pre_tool_use_hook")
        denied == asks /\ Unpacks(hook) /\ ~hook.value[1]
    IN [hook_calls |-> IF asks THEN <<[name |-> name, tool_args |-> tool_args]>> ELSE <<>>,
        forwarded |-> IF denied THEN <<>> ELSE <<[name |-> name, arguments |-> args]>>,
        outcome |-> IF denied
                    THEN [kind |-> "return",
                          value |-> [content |-> <<error_text(name, hook.value[2])>>,
                                     isError |-> TRUE]]
                    ELSE parent]

Managers == {NoManager, BareManager, HookManager}
SessionArguments == {None, Dict(EmptyMap), D1}
HookAnswers ==
    {Pair(TRUE, None), Pair(FALSE, Str("read-only")), Pair(FALSE, None), Pair(FALSE, Str("")),
     NotAPair, HookRaises}

\* result = await session.call_tool(name, arguments)
SessionCall ==
    /\ test.pc = "new"
    /\ \E m \in Managers, n \in {Write, Read}, a \in SessionArguments,
          h \in HookAnswers, p \in {ToolResult, ToolFails} :
          test' = [pc |-> "session_called", manager |-> m, name |-> n, arguments |-> a,
                   hook |-> h, parent |-> p, call |-> call_tool(m, n, a, h, p)]
    /\ UNCHANGED <<Hooks, registry, reglog, cleared, invs, pc, locals, context>>

SessionDone ==
    /\ test.pc = "session_called"
    /\ test' = NoTest
    /\ UNCHANGED <<Hooks, registry, reglog, cleared, invs, pc, locals, context>>

NextSession ==
    \/ SessionCall
    \/ SessionDone

SpecSession == Init /\ [][NextSession]_vars

\* ------------------------------------------------------------------------
\* MidStreamInjectionHook
\* ------------------------------------------------------------------------
MidStreamTimeout == 5

\* MidStreamInjectionHook(name, injection_callback)
MidStreamInjectionHook_init(name, injection_callback) ==
    [name |-> name, matcher |-> Star, timeout |-> MidStreamTimeout,
     _patterns |-> _parse_matcher(Star), _injection_callback |-> injection_callback]

set_callback(hook, callback) == [hook EXCEPT !._injection_callback = callback]

\* an execute that denies when the callback raises
MidStreamInjectionHook_execute_fail_closed(hook, tool_name, args, ctx, outcome) ==
    IF ~Truthy(hook._injection_callback) THEN HookResult_allow
    ELSE IF outcome.kind = "raise" THEN HookResult_deny(Str("Injection callback failed"))
    ELSE IF Truthy(outcome.value)
    THEN HookResult(TRUE, Dict(EmptyMap), None, "allow", None, None,
                    Dict([content |-> outcome.value, strategy |-> Str("tool_result")]))
    ELSE HookResult_allow

\* MidStreamInjectionHook.execute(function_name, arguments, context), the
\* callback, when there is one, behaving as `outcome`
MidStreamInjectionHook_execute(hook, tool_name, args, ctx, outcome) ==
    IF ~Truthy(hook._injection_callback) THEN HookResult_allow
    ELSE IF outcome.kind = "return" /\ Truthy(outcome.value)
    THEN HookResult(TRUE, Dict(EmptyMap), None, "allow", None, None,
                    Dict([content |-> outcome.value, strategy |-> Str("tool_result")]))
    ELSE HookResult_allow

\* callbacks: none, a function; what a call of the function gives
Callbacks == {None, Fn}
CallbackOutcomes ==
    {RetVal(None), RetVal(Str("")), RetVal(Str("X")), RetVal(Str("answer of agent-2")), Raises}
NotCalled == [kind |-> "not_called"]
MidStreamArgs == ArgStrings \cup {Str("{}")}

MidStreamConstruct ==
    /\ test.pc = "new"
    /\ \E cb \in Callbacks :
          test' = [pc |-> "mid_constructed",
                   hook |-> MidStreamInjectionHook_init("mid_stream_injection", cb),
                   tool |-> <<>>, args |-> None, ctx |-> EmptyMap, outcome |-> NotCalled,
                   result |-> None]
    /\ UNCHANGED <<Hooks, registry, reglog, cleared, invs, pc, locals, context>>

\* hook.set_callback(callback)
MidStreamSetCallback ==
    /\ test.pc \in {"mid_constructed", "mid_executed"}
    /\ \E cb \in Callbacks : test' = [test EXCEPT !.hook = set_callback(@, cb)]
    /\ test' # test
    /\ UNCHANGED <<Hooks, registry, reglog, cleared, invs, pc, locals, context>>

\* result = await hook.execute(tool_name, args, ctx)
MidStreamExecute ==
    /\ test.pc \in {"mid_constructed", "mid_executed"}
    /\ \E n \in DirectToolNames, a \in MidStreamArgs, c \in Contexts :
          \E o \in IF Truthy(test.hook._injection_callback) THEN CallbackOutcomes
                    ELSE {NotCalled} :
              test' = [test EXCEPT !.pc = "mid_executed", !.tool = n, !.args = a,
                                   !.ctx = c, !.outcome = o,
                                   !.result = HR(MidStreamInjectionHook_execute(
                                                     test.hook, n, a, c, o))]
    /\ UNCHANGED <<Hooks, registry, reglog, cleared, invs, pc, locals, context>>

MidStreamDone ==
    /\ test.pc = "mid_executed"
    /\ test' = NoTest
    /\ UNCHANGED <<Hooks, registry, reglog, cleared, invs, pc, locals, context>>

NextMidStream ==
    \/ MidStreamConstruct
    \/ MidStreamSetCallback
    \/ MidStreamExecute
    \/ MidStreamDone

SpecMidStream == Init /\ [][NextMidStream]_vars

\* ------------------------------------------------------------------------
\* A caller that queries the registry and changes the list it was given
\* ------------------------------------------------------------------------
\* a list object: `ref` says which list of the registry it is, "fresh" for a
\* list of its own
Fresh(items) == [ref |-> "fresh", items |-> items]

\* an override branch that hands out the agent's own list
ReturnedList_internal(agent_id, type) ==
    IF /\ Truthy(agent_id)
       /\ agent_id.val \in DOMAIN agent_overrides
       /\ Get(agent_overrides[agent_id.val], type, FALSE)
       /\ agent_id.val \in DOMAIN agent_hooks
       /\ type \in DOMAIN agent_hooks[agent_id.val]
    THEN [ref |-> <<agent_id.val, type>>, items |-> agent_hooks[agent_id.val][type]]
    ELSE Fresh(get_hooks_for_agent(agent_id, type))

\* the list object get_hooks_for_agent returns: `list(...)` of the agent's
\* list under an override, else the local `hooks = []` extended
ReturnedList(agent_id, type) == Fresh(get_hooks_for_agent(agent_id, type))

QueryAgents == {None} \cup {Str(a) : a \in AgentIds}

\* hooks = manager.get_hooks_for_agent(agent_id, hook_type)
Query ==
    /\ test.pc = "new"
    /\ \E x \in QueryAgents, t \in HookType :
          test' = [pc |-> "queried", agent_id |-> x, type |-> t,
                   first |-> get_hooks_for_agent(x, t), returned |-> ReturnedList(x, t)]
    /\ UNCHANGED <<Hooks, registry, reglog, cleared, invs, pc, locals, context>>

\* the caller's hooks.append(h) or hooks.clear(): the list object changes, and
\* with it the registry when the object is one of the registry's lists
CallerModifies ==
    /\ test.pc = "queried"
    /\ \E items \in {Append(test.returned.items, h) : h \in HookNames} \cup {<<>>} :
          /\ test' = [test EXCEPT !.pc = "modified", !.returned.items = items]
          /\ IF test.returned.ref = "fresh"
             THEN UNCHANGED agent_hooks
             ELSE agent_hooks' = [agent_hooks EXCEPT
                                    ![test.returned.ref[1]][test.returned.ref[2]] = items]
    /\ UNCHANGED <<Hooks, global_hooks, agent_overrides, reglog, cleared, invs, pc, locals,
                   context>>

QueryDone ==
    /\ test.pc = "modified"
    /\ test' = NoTest
    /\ UNCHANGED <<Hooks, registry, reglog, cleared, invs, pc, locals, context>>

NextQuery ==
    \/ test.pc = "new" /\ SetupGlobal
    \/ test.pc = "new" /\ SetupAgent
    \/ Query
    \/ CallerModifies
    \/ QueryDone
    \/ StartAgent
    \/ StepObserve
    \/ CallerContinue

SpecQuery == Init /\ [][NextQuery]_vars

\* ------------------------------------------------------------------------
\* Properties
\* ------------------------------------------------------------------------
\* a hook result that denies
Denies(r) == ~r.allowed \/ r.decision = "deny"
Allows(r) == r.allowed /\ r.decision = "allow"
\* execute_hooks has returned a deny
ReturnedDeny == pc = "returned" /\ ret.val.decision = "deny" /\ ~ret.val.allowed

\* C1: if the k-th matching hook (k < N) returns deny, execute_hooks returns
\* deny and no later hook of the invocation is invoked.
C1_DenyShortCircuits ==
    \A k \in 1..Len(calls) :
        (k < Len(matching_hooks) /\ Denies(calls[k].result))
            => (ReturnedDeny /\ Len(calls) = k)

\* C2: execute_hooks returns deny only if a hook it invoked returned deny, and
\* it returns allow when no effective hook matches the tool.
C2_DenyOnlyFromHook ==
    /\ ReturnedDeny => \E k \in 1..Len(calls) : Denies(calls[k].result)
    /\ (pc = "returned"
        /\ LET eff == get_hooks_for_agent(Get(context, "agent_id", None), hook_type)
           IN \A i \in 1..Len(eff) : ~matches(Hooks[eff[i]], function_name))
       => (Allows(ret.val) /\ calls = <<>>)

\* reached: a deny returned because the handler of a matching hook failed to load
C2_Witness ==
    /\ ReturnedDeny
    /\ calls # <<>>
    /\ calls[Len(calls)].fn = "import_error"

\* C3: execute_hooks never ends by raising, whatever its hooks return or raise.
C3_NeverRaises == pc # "raised"

\* the registrations of the log, by list
LoggedHooks(entries) == [i \in 1..Len(entries) |-> entries[i].hook]
GlobalRegs(t) ==
    LoggedHooks(SelectSeq(reglog, LAMBDA e : e.scope = "global" /\ e.type = t))
AgentRegs(a, t) ==
    LoggedHooks(SelectSeq(reglog, LAMBDA e : e.scope = "agent" /\ e.agent = a /\ e.type = t))
OverrideRecorded(a, t) ==
    \E i \in 1..Len(reglog) :
        /\ reglog[i].scope = "agent" /\ reglog[i].agent = a /\ reglog[i].type = t
        /\ reglog[i].override

\* C4: an agent without override gets the global hooks of the phase in
\* registration order followed by its own in registration order; an agent with
\* override recorded for the phase gets exactly its own hooks.
C4_EffectiveOrder ==
    \A a \in AgentIds, t \in HookType :
        get_hooks_for_agent(Str(a), t) =
            IF OverrideRecorded(a, t) THEN AgentRegs(a, t)
            ELSE GlobalRegs(t) \o AgentRegs(a, t)

\* reached: two different global hooks and a hook of the agent in one phase
C4_Witness ==
    \E a \in AgentIds, t \in HookType :
        /\ ~OverrideRecorded(a, t)
        /\ Len(GlobalRegs(t)) = 2
        /\ GlobalRegs(t)[1] # GlobalRegs(t)[2]
        /\ Len(AgentRegs(a, t)) = 1

\* C5: once a registration with override=True was made for (agent, phase), the
\* flag is set and stays set through later registrations without override, the
\* agent's effective hooks are all of its own hooks and no global one; only
\* clear_hooks (which empties the log) resets it.
C5_StickyOverride ==
    \A a \in AgentIds, t \in HookType :
        OverrideRecorded(a, t) =>
            /\ a \in DOMAIN agent_overrides
            /\ agent_overrides[a][t]
            /\ get_hooks_for_agent(Str(a), t) = AgentRegs(a, t)

\* reached: an override registration followed by one without override for the
\* same agent and phase, a global hook being registered for that phase
C5_Witness ==
    \E a \in AgentIds, t \in HookType :
        /\ Len(GlobalRegs(t)) > 0
        /\ \E i, j \in 1..Len(reglog) :
              /\ i < j
              /\ reglog[i].scope = "agent" /\ reglog[i].agent = a /\ reglog[i].type = t
              /\ reglog[i].override
              /\ reglog[j].scope = "agent" /\ reglog[j].agent = a /\ reglog[j].type = t
              /\ ~reglog[j].override

\* the invocation's agent has no override recorded for the phase
NoOverrideInForce ==
    LET a == Get(context, "agent_id", None)
    IN ~(Truthy(a) /\ a.val \in DOMAIN agent_overrides /\ agent_overrides[a.val][hook_type])
\* the matching global hooks of the invocation
GlobalMatching == MatchingHooks(global_hooks[hook_type], function_name)

\* C6: for an agent without override, if a matching global hook returns deny
\* then execute_hooks returns deny and no hook of the agent is invoked.
C6_GlobalDenyPrecedence ==
    (/\ pc \in {"loop", "returned"}
     /\ NoOverrideInForce
     /\ \E k \in 1..Len(calls) : k <= Len(GlobalMatching) /\ Denies(calls[k].result))
        => (/\ Len(calls) <= Len(GlobalMatching)
            /\ pc = "returned" => ReturnedDeny)

\* the JSON texts json.dumps gives for {"a": 1} and {"a": 2}
JsonA1 == Str("{\"a\": 1}")
JsonA2 == Str("{\"a\": 2}")

ReturnedInjections ==
    LET with == SelectSeq(calls, LAMBDA c : c.result.inject # None)
    IN [i \in 1..Len(with) |-> with[i].result.inject]
\* a well-formed injection: a map with a non-empty content string and a strategy
WellFormedInjection(inj) ==
    /\ inj.type = "dict"
    /\ DOMAIN inj.val = {"content", "strategy"}
    /\ inj.val.content.type = "str"
    /\ inj.val.content.val # ""
\* contents joined by newlines
RECURSIVE NewlineJoined(_)
NewlineJoined(injs) ==
    IF Len(injs) = 1 THEN injs[1].val.content.val
    ELSE NewlineJoined(SubSeq(injs, 1, Len(injs) - 1)) \o "\n" \o injs[Len(injs)].val.content.val

\* C8: when several hooks of an invocation return an injection and none
\* denies, the final result carries one injection: every content joined by
\* newlines in execution order, with the strategy of the last injecting hook.
C8_InjectionAggregation ==
    (/\ pc = "returned"
     /\ \A k \in 1..Len(calls) : ~Denies(calls[k].result)
     /\ Len(ReturnedInjections) >= 2
     /\ \A i \in 1..Len(ReturnedInjections) : WellFormedInjection(ReturnedInjections[i]))
        => ret.val.inject =
              Dict([content |-> Str(NewlineJoined(ReturnedInjections)),
                    strategy |-> ReturnedInjections[Len(ReturnedInjections)].val.strategy])

\* reached: "X"/tool_result then "Y"/user_message, combined as "X\nY"/user_message
C8_Witness ==
    /\ pc = "returned"
    /\ Len(calls) = 2
    /\ calls[1].result.inject = InjX
    /\ calls[2].result.inject = InjY
    /\ ret.val.inject = Dict([content |-> Str("X\nY"), strategy |-> Str("user_message")])

\* C9: a hook (constructed without fail_closed) whose function raises or does
\* not finish within the timeout returns allow, and the pipeline goes on with
\* the following hooks.
C9_FailOpenByDefault ==
    \A k \in 1..Len(calls) :
        calls[k].fn \in {"raise", "timeout"} =>
            /\ Allows(calls[k].result)
            /\ k < Len(matching_hooks) => (pc = "loop" \/ Len(calls) > k)

\* reached: a function timed out and the next hook was invoked
C9_Witness ==
    \E k \in 1..Len(calls) : calls[k].fn = "timeout" /\ Len(calls) > k

\* reasons that say the hook timed out
TimedOutReasons == {Str("Hook test timed out")}

\* C10: a hook constructed with fail_closed=true whose function does not
\* finish within its timeout returns deny with a reason containing "timed out".
C10_FailClosedTimeout ==
    (/\ test.pc \in {"type_error", "executed"}
     /\ "fail_closed" \in DOMAIN test.kwargs
     /\ test.kwargs["fail_closed"]
     /\ test.fn = TimesOut)
        => (/\ test.pc = "executed"
            /\ ~test.result.allowed
            /\ test.result.decision = "deny"
            /\ test.result.reason \in TimedOutReasons)

\* reasons that say the hook failed
FailedReasons == {Str("Hook test failed"), Str("Hook test failed: error")}

\* C11: a hook constructed with fail_closed=true whose function raises returns
\* deny with a reason containing "failed".
C11_FailClosedError ==
    (/\ test.pc \in {"type_error", "executed"}
     /\ "fail_closed" \in DOMAIN test.kwargs
     /\ test.kwargs["fail_closed"]
     /\ test.fn = Raises)
        => (/\ test.pc = "executed"
            /\ ~test.result.allowed
            /\ test.result.decision = "deny"
            /\ test.result.reason \in FailedReasons)

\* after the call the hook holds no function: its handler was not one and the
\* lazy load did not bind one
HandlerUnresolved == test.hook._callable.type # "function"

\* C12: when the handler of a callable hook cannot be resolved to a function,
\* every execute call for a matching tool returns deny.
C12_UnloadableAlwaysDeny ==
    (/\ test.pc = "executed"
     /\ matches(test.hook, test.tool)
     /\ HandlerUnresolved)
        => (~test.result.allowed /\ test.result.decision = "deny")

\* the pieces of a matcher between its "|" separators
Segments(m) ==
    { SubSeq(m, p[1], p[2]) :
        p \in { q \in (1..(Len(m) + 1)) \X (0..Len(m)) :
                  /\ q[2] >= q[1] - 1
                  /\ (q[1] = 1 \/ m[q[1] - 1] = "|")
                  /\ (q[2] = Len(m) \/ m[q[2] + 1] = "|")
                  /\ \A k \in q[1]..q[2] : m[k] # "|" } }
\* a piece without the blanks at its two ends
Trimmed(seg) ==
    CHOOSE t \in { SubSeq(seg, a, b) : a \in 1..(Len(seg) + 1), b \in 0..Len(seg) } :
        /\ \E a \in 1..(Len(seg) + 1), b \in 0..Len(seg) :
              /\ b >= a - 1
              /\ t = SubSeq(seg, a, b)
              /\ \A k \in (1..(a - 1)) \cup ((b + 1)..Len(seg)) : IsSpace(seg[k])
        /\ t # <<>> => (~IsSpace(t[1]) /\ ~IsSpace(t[Len(t)]))
\* the pattern with its i-th and later characters written out, each "*"
\* standing for lens[i] arbitrary characters
RECURSIVE Expand(_, _, _)
Expand(pat, lens, i) ==
    IF i > Len(pat) THEN <<>>
    ELSE (IF pat[i] = "*" THEN [k \in 1..lens[i] |-> "?"] ELSE <<pat[i]>>)
         \o Expand(pat, lens, i + 1)
\* the whole name is an instance of the glob pattern
GlobFull(name, pat) ==
    \E lens \in [{i \in 1..Len(pat) : pat[i] = "*"} -> 0..Len(name)] :
        LET e == Expand(pat, lens, 1)
        IN /\ Len(e) = Len(name)
           /\ \A k \in 1..Len(e) : e[k] = "?" \/ e[k] = name[k]

\* C13: matches(tool_name) is true iff the (non-empty) tool name fully matches,
\* as a glob, one of the trimmed "|"-separated sub-patterns of the matcher; an
\* empty matcher matches every tool name.
C13_MatcherSemantics ==
    test.pc = "executed" =>
        (matches(test.hook, test.tool)
            <=> IF test.hook.matcher = <<>> THEN TRUE
                ELSE \E seg \in Segments(test.hook.matcher) :
                        GlobFull(test.tool, Trimmed(seg)))

\* reached: " Write | Delete " matched Delete through its second sub-pattern
C13_Witness ==
    /\ test.pc = "executed"
    /\ test.hook.matcher = SpacedWriteOrDelete
    /\ test.tool = Delete
    /\ matches(test.hook, test.tool)

\* the effective hooks of the invocation in flight
EffectiveHooks == get_hooks_for_agent(Get(context, "agent_id", None), hook_type)

\* C14: execute_hooks invokes only hooks whose matcher matches the tool name,
\* and when no effective hook matches it returns allow with no modified
\* arguments and no injection, having invoked no hook.
C14_MatcherGating ==
    /\ \A k \in 1..Len(calls) : matches(Hooks[calls[k].hook], function_name)
    /\ (pc = "returned"
        /\ \A i \in 1..Len(EffectiveHooks) : ~matches(Hooks[EffectiveHooks[i]], function_name))
       => (/\ calls = <<>>
           /\ Allows(ret.val)
           /\ ret.val.modified_args = None
           /\ ret.val.inject = None)

\* reached: a hook with matcher "Write|Delete" is in force and Read was allowed
\* without invoking it
C14_Witness ==
    /\ pc = "returned"
    /\ function_name = Read
    /\ EffectiveHooks # <<>>
    /\ \A i \in 1..Len(EffectiveHooks) : Hooks[EffectiveHooks[i]].matcher = WriteOrDelete
    /\ calls = <<>>
    /\ Allows(ret.val)

\* C15: when a hook denies with a non-empty reason execute_hooks returns deny
\* with exactly that reason; when it gives no reason the returned reason is
\* "Denied by hook <name>".
C15_DenyReasonPropagation ==
    \A k \in 1..Len(calls) :
        (Denies(calls[k].result) /\ \A j \in 1..(k - 1) : ~Denies(calls[j].result))
            => /\ ReturnedDeny
               /\ ret.val.reason = IF Truthy(calls[k].result.reason)
                                    THEN calls[k].result.reason
                                    ELSE Str("Denied by hook " \o calls[k].hook)

\* the process of the executed command hook exited with this code
ExitedWith(codes) ==
    test.pc = "executed" /\ test.fn.kind = "exit" /\ test.fn.returncode \in codes

\* C16: a command hook whose process exits with a non-zero code returns allow
\* whatever its stdout contains.
C16_ExitCodeNeverDenies == ExitedWith(ReturnCodes \ {0}) => Allows(test.result)

\* reached: exit code 1 with stdout {"decision": "deny"} on a matching tool
C16_Witness ==
    /\ ExitedWith({1})
    /\ matches(test.hook, test.tool)
    /\ test.fn.stdout = Bytes("{\"decision\": \"deny\"}")
    /\ Allows(test.result)

\* stdout is the text of a JSON object
IsJsonObject(stdout) ==
    stdout.utf8 /\ \E d \in JsonDocs : d[1] = stdout.text /\ d[2].type = "dict"
JsonObject(stdout) == (CHOOSE d \in JsonDocs : d[1] = stdout.text)[2]

\* C17: a command hook whose process exits 0 with stdout that is not a JSON
\* object returns allow; with a JSON object the result is the one the
\* normalization of a callable's map result gives for that map.
C17_UnparsableOutputAllows ==
    (ExitedWith({0}) /\ matches(test.hook, test.tool))
        => IF IsJsonObject(test.fn.stdout)
           THEN test.result = _normalize_result(JsonObject(test.fn.stdout))
           ELSE Allows(test.result)

\* reached: exit 0 with stdout [1] (JSON, not an object) was allowed, on a
\* matching tool
C17_Witness ==
    /\ ExitedWith({0})
    /\ matches(test.hook, test.tool)
    /\ test.fn.stdout = Bytes("[1]")
    /\ Allows(test.result)

\* a HookResult has been produced from recorded inputs
Produced == test.pc \in {"made", "encoded", "decoded"}

\* C18: every HookResult produced by the constructor, by from_dict or by a
\* factory has allowed = false iff decision = deny, and when the inputs
\* conflict (allowed=false with allow or ask, allowed=true with deny) it is deny.
C18_AllowedDecisionSync ==
    Produced =>
        /\ (test.result.allowed = FALSE) <=> (test.result.decision = "deny")
        /\ (~test.input.allowed \/ test.input.decision = "deny")
              => (test.result.allowed = FALSE /\ test.result.decision = "deny")
        /\ (test.input.allowed /\ test.input.decision # "deny")
              => (test.result.allowed /\ test.result.decision = test.input.decision)

\* reached: from_dict of allowed=false with decision ask, and the constructor
\* with allowed=true and decision deny
C18_Witness ==
    /\ Produced
    /\ \/ (test.via = "from_dict" /\ ~test.input.allowed /\ test.input.decision = "ask")
       \/ (test.via = "constructor" /\ test.input.allowed /\ test.input.decision = "deny")
    /\ test.result.decision = "deny"

\* C19: writing a HookResult to its wire map and decoding it with from_dict
\* gives the same decision, reason, updated_input and inject (for field values
\* that JSON represents).
C19_WireRoundTrip ==
    test.pc = "decoded" =>
        /\ test.decoded.decision = test.result.decision
        /\ test.decoded.reason = test.result.reason
        /\ test.decoded.updated_input = test.result.updated_input
        /\ test.decoded.inject = test.result.inject

\* reached: an ask with a reason, rewritten arguments and an injection came back
C19_Witness ==
    /\ test.pc = "decoded"
    /\ test.result.decision = "ask"
    /\ test.result.reason = Str("why")
    /\ test.result.updated_input = D1
    /\ test.result.inject = InjX
    /\ test.decoded.inject = InjX

\* the calls of the invocation whose result is ask
AskCalls == {k \in 1..Len(calls) : calls[k].result.decision = "ask"}
LastAsk == CHOOSE k \in AskCalls : \A j \in AskCalls : j <= k

\* C20: a hook returning ask does not stop the iteration; a deny of any hook
\* yields deny; otherwise the final decision is ask iff some invoked hook
\* returned ask, with the reason of the last such hook, and allow if none did.
C20_AskIsAdvisory ==
    /\ \A k \in AskCalls : k < Len(matching_hooks) => (pc = "loop" \/ Len(calls) > k)
    /\ (pc = "returned" /\ calls # <<>>)
          => IF \E k \in 1..Len(calls) : Denies(calls[k].result) THEN ReturnedDeny
             ELSE IF AskCalls # {}
                  THEN /\ ret.val.decision = "ask"
                       /\ ret.val.reason = calls[LastAsk].result.reason
             ELSE ret.val.decision = "allow"

\* the hooks of a list, as a set
Elems(s) == {s[i] : i \in 1..Len(s)}
\* every registration of hook h in the log is for agent a / for phase t
OnlyForAgent(h, a) ==
    /\ \E i \in 1..Len(reglog) : reglog[i].hook = h
    /\ \A i \in 1..Len(reglog) :
          reglog[i].hook = h => reglog[i].scope = "agent" /\ reglog[i].agent = a
OnlyForPhase(h, t) ==
    /\ \E i \in 1..Len(reglog) : reglog[i].hook = h
    /\ \A i \in 1..Len(reglog) : reglog[i].hook = h => reglog[i].type = t
\* anyone get_hooks_for_agent may be asked about: no agent, or an agent id
Askers == {None} \cup {Str(a) : a \in AgentIds}
Isolated ==
    /\ \A h \in HookNames, a \in AgentIds, t \in HookType :
          OnlyForAgent(h, a) =>
              \A x \in Askers \ {Str(a)} : h \notin Elems(get_hooks_for_agent(x, t))
    /\ \A h \in HookNames, t \in HookType :
          OnlyForPhase(h, t) =>
              \A x \in Askers, t2 \in HookType \ {t} :
                  h \notin Elems(get_hooks_for_agent(x, t2))
\* this step records a registration with override=True for (a, t)
OverrideStep(a, t) ==
    /\ Len(reglog') = Len(reglog) + 1
    /\ LET e == reglog'[Len(reglog')]
       IN e.scope = "agent" /\ e.agent = a /\ e.type = t /\ e.override

\* C21: a hook registered only for agent A is never returned for another agent
\* or for no agent; a hook registered only for one phase is never returned for
\* the other phase; a registration with override for (A, phase) leaves A's
\* effective hooks of the other phase and every other agent's effective hooks
\* as they were.
C21_AgentPhaseIsolation ==
    /\ []Isolated
    /\ [][\A a \in AgentIds, t \in HookType :
            OverrideStep(a, t) =>
                \A x \in Askers, t2 \in HookType :
                    (x # Str(a) \/ t2 # t) =>
                        get_hooks_for_agent(x, t2)' = get_hooks_for_agent(x, t2)]_vars

\* reached: agent a overrides one phase, the other phase still gives it the
\* global hook registered there, and another agent gets a hook registered for
\* it alone
C21_Witness ==
    \E a \in AgentIds, b \in AgentIds, t \in HookType, t2 \in HookType, h \in HookNames :
        /\ a # b /\ t # t2
        /\ OverrideRecorded(a, t)
        /\ Len(GlobalRegs(t2)) > 0
        /\ get_hooks_for_agent(Str(a), t2) = GlobalRegs(t2)
        /\ OnlyForAgent(h, b)
        /\ h \in Elems(get_hooks_for_agent(Str(b), t2))

\* C22: once clear_hooks has run and until a hook is registered again,
\* get_hooks_for_agent is empty for every agent id and phase, no override flag
\* remains and execute_hooks returns allow without calling a hook; an agent
\* whose override was wiped by the clear and that has registered since without
\* override gets the global hooks followed by its own.
C22_ClearHooksClears ==
    /\ (cleared.done /\ reglog = <<>>) =>
          /\ \A x \in Askers, t \in HookType : get_hooks_for_agent(x, t) = <<>>
          /\ agent_overrides = EmptyMap
          /\ pc = "returned" => Allows(ret.val) /\ calls = <<>>
    /\ \A p \in cleared.overriding :
          ~OverrideRecorded(p[1], p[2]) =>
              get_hooks_for_agent(Str(p[1]), p[2]) =
                  GlobalRegs(p[2]) \o AgentRegs(p[1], p[2])

\* reached: an agent that overrode a phase before the clear has registered a
\* hook for that phase after it, without override, and gets the global hook
\* registered after the clear in front of its own
C22_Witness ==
    \E p \in cleared.overriding :
        /\ ~OverrideRecorded(p[1], p[2])
        /\ Len(GlobalRegs(p[2])) = 1
        /\ Len(AgentRegs(p[1], p[2])) = 1
        /\ get_hooks_for_agent(Str(p[1]), p[2]) = GlobalRegs(p[2]) \o AgentRegs(p[1], p[2])

\* the specs the configuration gives for phase t (a dict has one value per key)
PhaseValue(cfg, t) ==
    IF \E i \in 1..Len(cfg) : cfg[i][1] = t
    THEN cfg[CHOOSE i \in 1..Len(cfg) : cfg[i][1] = t][2]
    ELSE ListForm(<<>>)
PhaseSpecs(cfg, t) ==
    LET v == PhaseValue(cfg, t)
    IN IF v.form = "dict" THEN Get(v.dict, "hooks", <<>>) ELSE v.hooks
NamesHandler(c) == "handler" \in DOMAIN c /\ c.handler.val # ""
\* hook is the hook the claim describes for spec c
IsHookFor(hook, c) ==
    LET command == "type" \in DOMAIN c /\ c.type = Str("command")
    IN /\ ("handler_path" \in DOMAIN hook) = command
       /\ ("_handler_path" \in DOMAIN hook) = ~command
       /\ IF command THEN hook.handler_path = c.handler ELSE hook._handler_path = c.handler
\* the list `after` is `before` followed by one hook per spec, in order
Extended(before, after, specs) ==
    /\ Len(after) = Len(before) + Len(specs)
    /\ \A i \in 1..Len(before) : after[i] = before[i]
    /\ \A i \in 1..Len(specs) : IsHookFor(after[Len(before) + i], specs[i])
AgentList(reg, a, t) == IF a \in DOMAIN reg.a THEN reg.a[a][t] ELSE <<>>
\* the registry after the remembered call holds, per phase, the hooks of the
\* specs counted by Counted, appended to the lists of the agent given (or to the
\* global lists); with override true in the dict form and HasHook, the agent's
\* effective hooks are its own
ConfigRegistered(Counted(_), HasHook(_)) ==
    test.pc = "configured" =>
        LET cfg == test.hooks_config
            x == test.agent_id
        IN \A t \in HookType :
              LET specs == Counted(PhaseSpecs(cfg, t))
                  v == PhaseValue(cfg, t)
              IN /\ IF Truthy(x)
                    THEN /\ Extended(AgentList(test.before, x.val, t),
                                     AgentList(Registry, x.val, t), specs)
                         /\ global_hooks = test.before.g
                    ELSE /\ Extended(test.before.g[t], global_hooks[t], specs)
                         /\ agent_hooks = test.before.a
                 /\ (Truthy(x) /\ v.form = "dict" /\ Get(v.dict, "override", FALSE)
                        /\ HasHook(specs)) =>
                       get_hooks_for_agent(x, t) = AgentList(Registry, x.val, t)

\* C23 as claimed: one hook per spec, whatever the spec, and with the dict form
\* {override: true, hooks: [...]} given for an agent the agent's effective hooks
\* of the phase exclude the global hooks, whatever the list.
C23_AsClaimed == ConfigRegistered(LAMBDA specs : specs, LAMBDA specs : TRUE)

\* C23: register_hooks_from_config appends, for each known phase key, one hook
\* per spec that names a handler, in list order (an ExternalCommandHook when
\* type is "command", a PythonCallableHook otherwise), to the hooks of the
\* agent given and to the global hooks otherwise; with the dict form
\* {override: true, hooks: [...]} given for an agent, and at least one hook
\* registered from it, the agent's effective hooks of the phase are its own.
C23_ConfigRegistration ==
    ConfigRegistered(LAMBDA specs : SelectSeq(specs, NamesHandler),
                     LAMBDA specs : specs # <<>>)

\* reached: a global hook being registered for the phase, the dict form with
\* override and a command and a python spec was given for an agent, which now
\* gets those two hooks alone
C23_Witness ==
    /\ test.pc = "configured"
    /\ Truthy(test.agent_id)
    /\ \E t \in HookType :
          /\ PhaseValue(test.hooks_config, t) =
                 DictForm([override |-> TRUE, hooks |-> <<PyCheck, CmdCheck>>])
          /\ test.before.g[t] # <<>>
          /\ Len(get_hooks_for_agent(test.agent_id, t)) = 2

\* C24: when a hook invoked by execute_hooks returned a result that denies
\* (decision deny or allowed false, a result normalized from a map without
\* reason and with null metadata included), what execute_hooks returns is a
\* deny, never allow or ask.
C24_DenyNeverDowngraded ==
    (pc = "returned" /\ \E k \in 1..Len(calls) : Denies(calls[k].result)) => ReturnedDeny

\* C25: once execute of a command hook has returned, the process it spawned is
\* not running any more, the call that ran into the timeout included.
C25_SubprocessKilledOnTimeout ==
    test.pc = "executed" => test.proc # "running"

\* C26: once execute of a callable hook has returned after its timeout, the
\* function call it made is not running any more, be the function async (a
\* coroutine) or blocking (run on a worker thread).
C26_CallableCancelledOnTimeout ==
    (test.pc = "executed" /\ test.fn = TimesOut) => test.work # "running"

\* C27: the event handed to every hook during execute_hooks(phase, ...) carries
\* the phase of the invocation as its hook_type, whatever the caller's context
\* holds.
C27_EventPhaseFidelity ==
    \A k \in 1..Len(calls) :
        calls[k].event # None => calls[k].event.hook_type = Str(hook_type)

\* C28: the event handed to a hook during a PreToolUse invocation carries no
\* tool_output, also when the caller passes the context map it passed to an
\* earlier PostToolUse invocation.
C28_ToolOutputOnlyPostToolUse ==
    \A k \in 1..Len(calls) :
        (hook_type = PRE_TOOL_USE /\ calls[k].event # None)
            => calls[k].event.tool_output = None

\* the matching hooks in effective order, as the claim defines them
ExpectedChain == SelectSeq(EffectiveHooks, LAMBDA h : matches(Hooks[h], function_name))

\* C29: within one invocation the hooks are invoked one at a time in effective
\* order: the k-th call made is the call of the k-th matching hook of the
\* effective list, it has returned (or timed out) when the next one is made, and
\* no entry of the list is invoked twice.
C29_SequentialChain ==
    pc \in {"loop", "returned", "raised"} =>
        /\ Len(calls) <= Len(ExpectedChain)
        /\ \A k \in 1..Len(calls) :
              /\ calls[k].hook = ExpectedChain[k]
              /\ calls[k].fn \in {"return", "raise", "timeout", "import_error"}
        /\ pc = "loop" => Len(calls) < Len(ExpectedChain)

\* reached: two different hooks match, the first one timed out and the second
\* one was invoked after it
C29_Witness ==
    /\ pc = "returned"
    /\ Len(calls) = 2
    /\ calls[1].hook # calls[2].hook
    /\ calls[1].fn = "timeout"
    /\ calls[2].fn = "return"

\* C30: an invocation is Running (suspended in the loop) only while no hook has
\* denied, and it ends in exactly one terminal state: Denied, the deny being
\* returned at the first hook that denies, or Completed, a result that is not a
\* deny being returned after every matching hook was invoked; it never ends by
\* raising.
C30_InvocationStateMachine ==
    LET denied == {k \in 1..Len(calls) : Denies(calls[k].result)}
    IN /\ pc = "loop" => denied = {}
       /\ pc = "returned" =>
             IF denied # {}
             THEN ReturnedDeny /\ denied = {Len(calls)}
             ELSE ~ReturnedDeny /\ Len(calls) = Len(matching_hooks)
       /\ pc # "raised"

\* invocation f run alone through its first k hooks, each hook returning what
\* it returned to f: the outcome of the k-th turn of the loop
RECURSIVE Alone(_, _)
Alone(f, k) ==
    IF k = 0
    THEN [exit |-> "next", swallowed |-> FALSE, ret |-> None,
          final_result |-> HookResult_allow, modified_args |-> f.arguments,
          all_injections |-> <<>>]
    ELSE LET before == Alone(f, k - 1)
         IN LoopBody(Hooks[f.calls[k].hook], f.calls[k].result, before.final_result,
                     before.modified_args, before.all_injections)
\* what the invocation run alone returns after its last call
AloneReturns(f) ==
    LET end == Alone(f, Len(f.calls))
    IN IF end.exit = "return" THEN end.ret
       ELSE HR(BuildFinal(end.final_result, end.modified_args, f.arguments,
                          end.all_injections))

C32_NothingExtra ==
    pc = "returned" =>
        IF ReturnedDeny
        THEN /\ ret.val.modified_args = None
             /\ ret.val.updated_input = None
             /\ ret.val.inject = None
        ELSE ret.val.modified_args =
                 IF modified_args # arguments THEN modified_args ELSE None

\* reached: a hook rewrote the arguments, the hook after it was handed the
\* rewritten arguments and denied, and the deny returned carries none
C32_Witness ==
    /\ ReturnedDeny
    /\ Len(calls) >= 2
    /\ calls[Len(calls)].arguments # arguments
    /\ ret.val.modified_args = None

\* C33: executing hooks leaves every attribute of every hook object as it was
\* when the hook was constructed (name, matcher, patterns, timeout, handler
\* path and callable).
C33_HooksNotMutated == Hooks = NewHooks

\* the matcher is made only of blanks and "|" separators
OnlySeparators(m) == \A k \in 1..Len(m) : m[k] = "|" \/ IsSpace(m[k])

\* C34: every constructed hook has at least one sub-pattern, and a matcher made
\* only of blanks and "|" separators is parsed like the empty matcher, to the
\* single sub-pattern "*" that matches every tool name.
C34_MatcherNeverEmpty ==
    test.pc \in {"constructed", "executed"} =>
        /\ test.hook._patterns # <<>>
        /\ OnlySeparators(test.hook.matcher) =>
              /\ test.hook._patterns = <<Star>>
              /\ \A n \in DirectToolNames : matches(test.hook, n)

\* the matching hooks the registry gives the invocation in flight now
LiveChain ==
    MatchingHooks(get_hooks_for_agent(Get(context, "agent_id", None), hook_type),
                  function_name)

\* C35: the hooks an invocation runs are the matching hooks of the registry at
\* its start, in that order: the list is fixed by the start, the k-th call is
\* the k-th hook of that list, and no step taken while the invocation is in
\* flight (a registration or a clear included) changes the list or the calls
\* already made; a change of the registry shows in invocations started later.
C35_RegistrySnapshot ==
    /\ [](pc \in {"loop", "returned", "raised"} =>
            /\ Len(calls) <= Len(matching_hooks)
            /\ \A k \in 1..Len(calls) : calls[k].hook = matching_hooks[k]
            /\ pc = "loop" => Len(calls) < Len(matching_hooks))
    /\ [][/\ (pc = "idle" /\ pc' # "idle") => matching_hooks' = LiveChain'
          /\ (pc # "idle" /\ pc' # "idle") =>
                /\ matching_hooks' = matching_hooks
                /\ Len(calls') >= Len(calls)
                /\ SubSeq(calls', 1, Len(calls)) = calls]_vars

\* reached: an invocation ran both hooks of its list to the end although the
\* registry was cleared after its first hook
C35_Witness ==
    /\ pc = "returned"
    /\ Len(matching_hooks) = 2
    /\ Len(calls) = 2
    /\ calls[2].hook = matching_hooks[2]
    /\ LiveChain = <<>>

\* C36: a step of get_hooks_for_agent, of the caller changing the list it was
\* given, or of execute_hooks leaves the global lists, the agents' lists and the
\* override flags as they were, and after the caller changed its list the same
\* query still returns what it returned the first time.
C36_QueriesKeepRegistry ==
    /\ [](test.pc \in {"queried", "modified"} =>
            get_hooks_for_agent(test.agent_id, test.type) = test.first)
    /\ [][(test' # test \/ pc' # pc \/ calls' # calls) => registry' = registry]_vars

\* reached: an overriding agent's caller emptied the list it was given while
\* the agent's registered hooks are still there
C36_Witness ==
    /\ test.pc = "modified"
    /\ test.agent_id = Str("agent-1")
    /\ "agent-1" \in DOMAIN agent_overrides
    /\ agent_overrides["agent-1"][test.type]
    /\ test.first # <<>>
    /\ test.returned.items = <<>>
    /\ agent_hooks["agent-1"][test.type] = test.first

\* C37: whenever the override flag of an agent is set for a phase, the agent
\* has at least one hook of its own registered for that phase, so the hooks
\* that apply to the agent in that phase are not empty.
C37_OverrideHasHooks ==
    \A a \in DOMAIN agent_overrides, t \in HookType :
        agent_overrides[a][t] =>
            /\ a \in DOMAIN agent_hooks
            /\ agent_hooks[a][t] # <<>>
            /\ get_hooks_for_agent(Str(a), t) # <<>>

\* reached: a configuration set the override of an agent that had a hook and no
\* override before; the agent's hooks alone apply to it
C37_Witness ==
    /\ test.pc = "configured"
    /\ "agent-1" \in DOMAIN test.before.o
    /\ \E t \in HookType :
          /\ ~test.before.o["agent-1"][t]
          /\ agent_overrides["agent-1"][t]
          /\ Len(agent_hooks["agent-1"][t]) > Len(test.before.a["agent-1"][t])
          /\ get_hooks_for_agent(Str("agent-1"), t) = agent_hooks["agent-1"][t]

\* the inject maps the hooks of the invocation returned, in chain order
Injected ==
    LET all == [k \in 1..Len(calls) |-> calls[k].result.inject]
    IN SelectSeq(all, LAMBDA inj : inj # None /\ inj.val # EmptyMap)
HasContent(inj) == "content" \in DOMAIN inj.val /\ inj.val.content # Str("")
Contributing == SelectSeq(Injected, HasContent)
StrategyOf(inj) == IF "strategy" \in DOMAIN inj.val THEN inj.val.strategy ELSE Str("tool_result")

\* C38 as stated: the strategy of a returned injection is the strategy of the
\* last hook whose content is part of the combined content.
C38_StrategyOfLastContributing ==
    (pc = "returned" /\ ret.val.inject # None) =>
        /\ Contributing # <<>>
        /\ ret.val.inject.val.strategy = StrategyOf(Contributing[Len(Contributing)])

\* C38, amended: the strategy of a returned injection is the strategy
\* ("tool_result" when it names none) of the last hook that returned an inject
\* map, whether or not that hook's content is empty; the content is the
\* newline-joined non-empty contents, and no injection is returned when every
\* injected content is empty or missing.
C38_StrategyOfLastInjecting ==
    (pc = "returned" /\ ~ReturnedDeny) =>
        IF Contributing = <<>> THEN ret.val.inject = None
        ELSE /\ ret.val.inject # None
             /\ ret.val.inject.val.strategy = StrategyOf(Injected[Len(Injected)])
             /\ ret.val.inject.val.content =
                  Str(JoinNL([i \in 1..Len(Contributing) |-> Contributing[i].val.content.val]))

\* reached: content "X" of a tool_result injection returned with the strategy
\* of a later injection that had no content
C38_Witness ==
    /\ pc = "returned"
    /\ Len(calls) = 2
    /\ calls[1].result.inject = InjX
    /\ calls[2].result.inject = InjEmpty
    /\ ret.val.inject = Dict([content |-> Str("X"), strategy |-> Str("user_message")])

\* the hook of the session's manager was consulted and answered not-allowed
HookDenied ==
    /\ test.manager = HookManager
    /\ test.hook.kind = "return"
    /\ "value" \in DOMAIN test.hook
    /\ test.hook.value[1] = FALSE

\* C39: when pre_tool_use_hook answers not-allowed the call is not forwarded
\* to the underlying session and an error result that carries the reason is
\* returned; when the hook allows, is absent or raises, the call is forwarded
\* exactly once, with the name and the arguments the caller passed.
C39_SessionEnforcement ==
    test.pc = "session_called" =>
        IF HookDenied
        THEN /\ test.call.forwarded = <<>>
             /\ test.call.outcome.kind = "return"
             /\ test.call.outcome.value.isError
             /\ test.call.outcome.value.content[1].tool = test.name
             /\ Truthy(test.hook.value[2]) =>
                  test.call.outcome.value.content[1].reasons = <<test.hook.value[2].val>>
        ELSE /\ test.call.forwarded = <<[name |-> test.name, arguments |-> test.arguments]>>
             /\ test.call.outcome = test.parent

\* reached: a call the hook denied with a reason came back as an error result
\* and never reached the underlying session, which would have served it
C39_Witness ==
    /\ test.pc = "session_called"
    /\ HookDenied
    /\ test.hook.value[2] = Str("read-only")
    /\ test.arguments = D1
    /\ test.parent = ToolResult
    /\ test.call.forwarded = <<>>
    /\ test.call.outcome.value.isError

\* C40: execute of the mid-stream injection hook always returns an allowed
\* result; it carries the injection {content: the callback's return value,
\* strategy: tool_result} when a callback is set and returned non-empty
\* content, and no injection when no callback is set, the callback returned
\* nothing, or the callback raised.
C40_MidStreamNeverBlocks ==
    test.pc = "mid_executed" =>
        /\ test.result.val.allowed
        /\ test.result.val.decision = "allow"
        /\ IF /\ test.outcome.kind = "return"
              /\ test.outcome.value \notin {None, Str("")}
           THEN test.result.val.inject =
                    Dict([content |-> test.outcome.value, strategy |-> Str("tool_result")])
           ELSE test.result.val.inject = None

\* reached: the callback raised and the result is a plain allow
C40_Witness ==
    /\ test.pc = "mid_executed"
    /\ test.hook._injection_callback = Fn
    /\ test.outcome = Raises
    /\ test.result = HR(HookResult_allow)

====
